---------------------------- MODULE Spec2Model ----------------------------
(***************************************************************************)
(* MTGDoku: the daily-puzzle server (server.js), its SQLite store (db.js)  *)
(* and the board generator, as a state machine.                            *)
(*                                                                         *)
(* JavaScript values are tagged records: a string is Str(s), undefined and *)
(* null are Undefined and Null, an array is Arr(items), a criterion object *)
(* is Crit(name, code).  String contents are read through Chars, a table   *)
(* of the characters of every string literal the model uses.               *)
(***************************************************************************)
EXTENDS Integers, Sequences, FiniteSets, TLC

\* ------------------------------------------------------------------
\* JavaScript values
\* ------------------------------------------------------------------

Str(s) == [t |-> "string", s |-> s]

Undefined == [t |-> "undefined", s |-> ""]

Null == [t |-> "null", s |-> ""]

Arr(items) == [t |-> "array", items |-> items]

\* An object with the properties name and code; an absent property reads undefined.
Obj(name, code) == [t |-> "object", name |-> name, code |-> code]

Crit(name, code) == Obj(Str(name), Str(code))

\* The characters of the string literals of the program and of the stored test data.
Chars(s) ==
    CASE s = "" -> << >>
      [] s = "c:" -> <<"c", ":">>
      [] s = "type:" -> <<"t", "y", "p", "e", ":">>
      [] s = "mv" -> <<"m", "v">>
      [] s = "year" -> <<"y", "e", "a", "r">>
      [] s = "instant" -> <<"i", "n", "s", "t", "a", "n", "t">>
      [] s = "sorcery" -> <<"s", "o", "r", "c", "e", "r", "y">>
      [] s = "c:w" -> <<"c", ":", "w">>
      [] s = "c:u" -> <<"c", ":", "u">>
      [] s = "c:b" -> <<"c", ":", "b">>
      [] s = "c:r" -> <<"c", ":", "r">>
      [] s = "c:g" -> <<"c", ":", "g">>
      [] s = "type:creature" -> <<"t", "y", "p", "e", ":", "c", "r", "e", "a", "t", "u", "r", "e">>
      [] s = "type:instant" -> <<"t", "y", "p", "e", ":", "i", "n", "s", "t", "a", "n", "t">>
      [] s = "type:sorcery" -> <<"t", "y", "p", "e", ":", "s", "o", "r", "c", "e", "r", "y">>
      [] s = "type:enchantment" -> <<"t", "y", "p", "e", ":", "e", "n", "c", "h", "a", "n", "t", "m", "e", "n", "t">>
      [] s = "type:artifact" -> <<"t", "y", "p", "e", ":", "a", "r", "t", "i", "f", "a", "c", "t">>
      [] s = "mv<=2" -> <<"m", "v", "<", "=", "2">>
      [] s = "mv=3" -> <<"m", "v", "=", "3">>
      [] s = "mv=4" -> <<"m", "v", "=", "4">>
      [] s = "mv>=5" -> <<"m", "v", ">", "=", "5">>
      [] s = "mv<3" -> <<"m", "v", "<", "3">>
      [] s = "mv>4" -> <<"m", "v", ">", "4">>
      [] s = "year<2000" -> <<"y", "e", "a", "r", "<", "2", "0", "0", "0">>
      [] s = "year>=2000 year<=2009" ->
            <<"y", "e", "a", "r", ">", "=", "2", "0", "0", "0", " ",
              "y", "e", "a", "r", "<", "=", "2", "0", "0", "9">>
      [] s = "year>=2010 year<=2019" ->
            <<"y", "e", "a", "r", ">", "=", "2", "0", "1", "0", " ",
              "y", "e", "a", "r", "<", "=", "2", "0", "1", "9">>
      [] s = "year>=2020" -> <<"y", "e", "a", "r", ">", "=", "2", "0", "2", "0">>
      [] s = "2026-02-18" -> <<"2", "0", "2", "6", "-", "0", "2", "-", "1", "8">>
      [] s = "2026-02-19" -> <<"2", "0", "2", "6", "-", "0", "2", "-", "1", "9">>
      [] s = "2026-02-20" -> <<"2", "0", "2", "6", "-", "0", "2", "-", "2", "0">>
      [] s = "2026-02-21" -> <<"2", "0", "2", "6", "-", "0", "2", "-", "2", "1">>
      [] s = "2026-2-18" -> <<"2", "0", "2", "6", "-", "2", "-", "1", "8">>
      [] s = "2026-2-19" -> <<"2", "0", "2", "6", "-", "2", "-", "1", "9">>
      [] s = "2026-2-20" -> <<"2", "0", "2", "6", "-", "2", "-", "2", "0">>
      [] s = "2026-2-21" -> <<"2", "0", "2", "6", "-", "2", "-", "2", "1">>
      [] s = "2026-02-18x" -> <<"2", "0", "2", "6", "-", "0", "2", "-", "1", "8", "x">>
      [] s = "today" -> <<"t", "o", "d", "a", "y">>
      [] s = "test" -> <<"t", "e", "s", "t">>

\* String.prototype.startsWith
StartsWithChars(a, p) == Len(p) <= Len(a) /\ SubSeq(a, 1, Len(p)) = p

StartsWith(s, prefix) == StartsWithChars(Chars(s), Chars(prefix))

\* String.prototype.includes
IncludesChars(a, p) ==
    \E i \in 1..(Len(a) + 1) :
        i + Len(p) - 1 <= Len(a) /\ SubSeq(a, i, i + Len(p) - 1) = p

Includes(s, sub) == IncludesChars(Chars(s), Chars(sub))

\* ------------------------------------------------------------------
\* Criteria pools (server.js)
\* ------------------------------------------------------------------

allColors ==
    << Crit("White Cards", "c:w"), Crit("Blue Cards", "c:u"), Crit("Black Cards", "c:b"),
       Crit("Red Cards", "c:r"), Crit("Green Cards", "c:g") >>

allTypes ==
    << Crit("Creatures", "type:creature"), Crit("Instants", "type:instant"),
       Crit("Sorceries", "type:sorcery"), Crit("Enchantments", "type:enchantment"),
       Crit("Artifacts", "type:artifact") >>

allCMCs ==
    << Crit("Mana Value <= 2", "mv<=2"), Crit("Mana Value 3", "mv=3"),
       Crit("Mana Value 4", "mv=4"), Crit("Mana Value >= 5", "mv>=5") >>

allYears ==
    << Crit("Released Pre-2000", "year<2000"),
       Crit("Released 2000-2009", "year>=2000 year<=2009"),
       Crit("Released 2010-2019", "year>=2010 year<=2019"),
       Crit("Released 2020+", "year>=2020") >>

\* generateBoard's local allCriteria: the four pools, spread in this order.
allCriteria == allColors \o allTypes \o allCMCs \o allYears

\* ------------------------------------------------------------------
\* Board generation helpers (server.js)
\* ------------------------------------------------------------------

\* Mutant of getCat: the test for the cost prefix is missing.
getCatNoCost(c) ==
    IF StartsWith(c.code.s, "c:") THEN "color"
    ELSE IF StartsWith(c.code.s, "type:") THEN "type"
    ELSE IF StartsWith(c.code.s, "year") THEN "year"
    ELSE "unknown"

\* getCat, the closure of areCriteriaCompatible.
getCat(c) ==
    IF StartsWith(c.code.s, "c:") THEN "color"
    ELSE IF StartsWith(c.code.s, "type:") THEN "type"
    ELSE IF StartsWith(c.code.s, "mv") THEN "cmc"
    ELSE IF StartsWith(c.code.s, "year") THEN "year"
    ELSE "unknown"

\* Mutant of isExclusive: sorcery is forgotten.
isExclusiveInstantOnly(code) == Includes(code, "instant")

\* isExclusive, the closure of areCriteriaCompatible.
isExclusive(code) == Includes(code, "instant") \/ Includes(code, "sorcery")

\* Mutant of areCriteriaCompatible: only the first criterion is tested for an
\* exclusive type.
areCriteriaCompatibleFirstOnly(critA, critB) ==
    LET catA == getCat(critA)
        catB == getCat(critB)
    IN  IF catA # catB THEN TRUE
        ELSE IF catA = "color" THEN TRUE
        ELSE IF catA = "cmc" THEN FALSE
        ELSE IF catA = "year" THEN FALSE
        ELSE IF catA = "type" THEN ~isExclusive(critA.code.s)
        ELSE TRUE

\* Mutant of areCriteriaCompatible: criteria of different categories are
\* reported incompatible (`if (catA !== catB) return false`).
areCriteriaCompatibleCrossFalse(critA, critB) ==
    LET catA == getCat(critA)
        catB == getCat(critB)
    IN  IF catA # catB THEN FALSE
        ELSE IF catA = "color" THEN TRUE
        ELSE IF catA = "cmc" THEN FALSE
        ELSE IF catA = "year" THEN FALSE
        ELSE IF catA = "type"
             THEN ~(isExclusive(critA.code.s) \/ isExclusive(critB.code.s))
        ELSE TRUE

areCriteriaCompatible(critA, critB) ==
    LET catA == getCat(critA)
        catB == getCat(critB)
    IN  IF catA # catB THEN TRUE
        ELSE IF catA = "color" THEN TRUE
        ELSE IF catA = "cmc" THEN FALSE
        ELSE IF catA = "year" THEN FALSE
        ELSE IF catA = "type"
             THEN ~(isExclusive(critA.code.s) \/ isExclusive(critB.code.s))
        ELSE TRUE

\* Mutant of shuffleFrom: shuffled[i] is overwritten and not swapped.
RECURSIVE shuffleFromOverwrite(_, _, _)
shuffleFromOverwrite(shuffled, rnd, i) ==
    IF i > 0
    THEN LET j == rnd[i]
             swapped == [shuffled EXCEPT ![i + 1] = shuffled[j + 1]]
         IN  shuffleFromOverwrite(swapped, rnd, i - 1)
    ELSE shuffled

\* One pass of shuffleArray's loop, from index i (0-based) down to 1:
\* j = Math.floor(Math.random() * (i + 1)) is rnd[i], then shuffled[i] and
\* shuffled[j] are swapped.
RECURSIVE shuffleFrom(_, _, _)
shuffleFrom(shuffled, rnd, i) ==
    IF i > 0
    THEN LET j == rnd[i]
             swapped == [shuffled EXCEPT ![i + 1] = shuffled[j + 1],
                                         ![j + 1] = shuffled[i + 1]]
         IN  shuffleFrom(swapped, rnd, i - 1)
    ELSE shuffled

\* shuffleArray(array) under the Math.random outcomes rnd (rnd[i] \in 0..i).
shuffleArray(array, rnd) == shuffleFrom(array, rnd, Len(array) - 1)

maxAttempts == 10

\* Mutant of scanColumns: a candidate is checked against the first row only.
RECURSIVE scanColumnsFirstRow(_, _, _, _)
scanColumnsFirstRow(shuffled, rows, cols, i) ==
    IF i < Len(shuffled)
    THEN LET candidate == shuffled[i + 1]
             compatible == areCriteriaCompatible(candidate, rows[1])
             cols2 == IF compatible THEN Append(cols, candidate) ELSE cols
         IN  IF Len(cols2) = 3 THEN cols2
             ELSE scanColumnsFirstRow(shuffled, rows, cols2, i + 1)
    ELSE cols

\* Mutant of scanColumns: a candidate compatible with some row is accepted.
RECURSIVE scanColumnsAnyRow(_, _, _, _)
scanColumnsAnyRow(shuffled, rows, cols, i) ==
    IF i < Len(shuffled)
    THEN LET candidate == shuffled[i + 1]
             compatible == \E r \in 1..Len(rows) : areCriteriaCompatible(candidate, rows[r])
             cols2 == IF compatible THEN Append(cols, candidate) ELSE cols
         IN  IF Len(cols2) = 3 THEN cols2
             ELSE scanColumnsAnyRow(shuffled, rows, cols2, i + 1)
    ELSE cols

\* Mutant of scanColumns: the entry after an accepted one is passed over.
RECURSIVE scanColumnsSkipsNext(_, _, _, _)
scanColumnsSkipsNext(shuffled, rows, cols, i) ==
    IF i < Len(shuffled)
    THEN LET candidate == shuffled[i + 1]
             compatible == \A r \in 1..Len(rows) : areCriteriaCompatible(candidate, rows[r])
             cols2 == IF compatible THEN Append(cols, candidate) ELSE cols
         IN  IF Len(cols2) = 3 THEN cols2
             ELSE scanColumnsSkipsNext(shuffled, rows, cols2, IF compatible THEN i + 2 ELSE i + 1)
    ELSE cols

\* The inner for loop of generateBoard from index i (0-based): accept a candidate
\* compatible with every row, stop at 3 columns.
RECURSIVE scanColumns(_, _, _, _)
scanColumns(shuffled, rows, cols, i) ==
    IF i < Len(shuffled)
    THEN LET candidate == shuffled[i + 1]
             compatible == \A r \in 1..Len(rows) : areCriteriaCompatible(candidate, rows[r])
             cols2 == IF compatible THEN Append(cols, candidate) ELSE cols
         IN  IF Len(cols2) = 3 THEN cols2
             ELSE scanColumns(shuffled, rows, cols2, i + 1)
    ELSE cols

Slice(seq, from, to) == SubSeq(seq, from + 1, to)


\* A board as generateBoard returns it and as getPuzzle loads it.
Board(rows, cols) == [t |-> "object", rowCriteria |-> Arr(rows), colCriteria |-> Arr(cols)]

\* The Math.random outcomes of one generateBoard call: those of its first
\* shuffleArray call and those of every later one.
DrawOf(rnds, k) == IF k = 1 THEN rnds.first ELSE rnds.rest

\* Mutant of generateLoop: the loop admits one attempt too many and its
\* length test can never succeed.
RECURSIVE generateLoopOffByOne(_, _, _)
generateLoopOffByOne(rnds, attempts, shuffles) ==
    IF attempts <= maxAttempts
    THEN LET shuffled == shuffleArray(allCriteria, DrawOf(rnds, shuffles + 1))
             rows == Slice(shuffled, 0, 3)
             cols == scanColumns(shuffled, rows, << >>, 3)
         IN  IF Len(cols) > 3
             THEN [board |-> Board(rows, cols), attempts |-> attempts + 1,
                   shuffles |-> shuffles + 1, fallback |-> FALSE]
             ELSE generateLoopOffByOne(rnds, attempts + 1, shuffles + 1)
    ELSE LET shuffled == shuffleArray(allCriteria, DrawOf(rnds, shuffles + 1))
         IN  [board |-> Board(Slice(shuffled, 0, 3), Slice(shuffled, 3, 6)),
              attempts |-> attempts, shuffles |-> shuffles + 1, fallback |-> TRUE]

\* generateBoard from the head of its while loop, with `attempts` as in the code
\* and `shuffles` counting the shuffleArray calls made so far.  The result holds
\* the returned board, the final counters and whether the fallback returned it.
RECURSIVE generateLoop(_, _, _)
generateLoop(rnds, attempts, shuffles) ==
    IF attempts < maxAttempts
    THEN LET shuffled == shuffleArray(allCriteria, DrawOf(rnds, shuffles + 1))
             rows == Slice(shuffled, 0, 3)
             cols == scanColumns(shuffled, rows, << >>, 3)
         IN  IF Len(cols) = 3
             THEN [board |-> Board(rows, cols), attempts |-> attempts + 1,
                   shuffles |-> shuffles + 1, fallback |-> FALSE]
             ELSE generateLoop(rnds, attempts + 1, shuffles + 1)
    ELSE LET shuffled == shuffleArray(allCriteria, DrawOf(rnds, shuffles + 1))
         IN  [board |-> Board(Slice(shuffled, 0, 3), Slice(shuffled, 3, 6)),
              attempts |-> attempts, shuffles |-> shuffles + 1, fallback |-> TRUE]

generateBoard(rnds) == generateLoop(rnds, 0, 0)

\* ------------------------------------------------------------------
\* JSON text (the row_criteria and col_criteria columns)
\* ------------------------------------------------------------------

\* A text is a sequence of tokens: a quoted string literal Q(s), or P(s), a
\* punctuation mark or a bare word.
Q(s) == [q |-> TRUE, s |-> s]

P(s) == [q |-> FALSE, s |-> s]

\* The property of an object, undefined when the value has none.
Prop(v, p) ==
    IF v.t = "object" /\ p \in DOMAIN v THEN v[p] ELSE Undefined

RECURSIVE JSONstringify(_)
RECURSIVE stringifyItems(_, _)
\* The items of an array from index i on, separated by commas; an undefined
\* item is written as null.
stringifyItems(items, i) ==
    IF i > Len(items) THEN << >>
    ELSE (IF i > 1 THEN <<P(",")>> ELSE << >>)
         \o (IF items[i].t = "undefined" THEN <<P("null")>> ELSE JSONstringify(items[i]))
         \o stringifyItems(items, i + 1)

\* JSON.stringify: an object's undefined properties are left out.
JSONstringify(v) ==
    CASE v.t = "string" -> <<Q(v.s)>>
      [] v.t = "null" -> <<P("null")>>
      [] v.t = "array" -> <<P("[")>> \o stringifyItems(v.items, 1) \o <<P("]")>>
      [] v.t = "object" ->
            LET name == IF v.name.t = "undefined" THEN << >>
                        ELSE <<Q("name"), P(":")>> \o JSONstringify(v.name)
                code == IF v.code.t = "undefined" THEN << >>
                        ELSE <<Q("code"), P(":")>> \o JSONstringify(v.code)
                sep == IF name # << >> /\ code # << >> THEN <<P(",")>> ELSE << >>
            IN  <<P("{")>> \o name \o sep \o code \o <<P("}")>>

\* A parse result: the value and the index after it, or a SyntaxError.
Parsed(v, next) == [ok |-> TRUE, value |-> v, next |-> next]

SyntaxError == [ok |-> FALSE, value |-> Undefined, next |-> 0]

IsTok(text, i, tok) == i <= Len(text) /\ text[i] = tok

RECURSIVE parseValue(_, _)
RECURSIVE parseItems(_, _, _)
RECURSIVE parseProps(_, _, _)
\* The items of an array after its "[" or after a comma.
parseItems(text, i, items) ==
    LET item == parseValue(text, i)
    IN  IF ~item.ok THEN SyntaxError
        ELSE IF IsTok(text, item.next, P("]"))
             THEN Parsed(Arr(Append(items, item.value)), item.next + 1)
        ELSE IF IsTok(text, item.next, P(","))
             THEN parseItems(text, item.next + 1, Append(items, item.value))
        ELSE SyntaxError

\* The properties of an object after its "{" or after a comma.
parseProps(text, i, obj) ==
    IF i + 1 <= Len(text) /\ text[i].q /\ text[i].s \in {"name", "code"}
       /\ text[i + 1] = P(":")
    THEN LET val == parseValue(text, i + 2)
             obj2 == IF ~val.ok THEN obj
                     ELSE IF text[i].s = "name" THEN [obj EXCEPT !.name = val.value]
                     ELSE [obj EXCEPT !.code = val.value]
         IN  IF ~val.ok THEN SyntaxError
             ELSE IF IsTok(text, val.next, P("}")) THEN Parsed(obj2, val.next + 1)
             ELSE IF IsTok(text, val.next, P(",")) THEN parseProps(text, val.next + 1, obj2)
             ELSE SyntaxError
    ELSE SyntaxError

parseValue(text, i) ==
    IF i > Len(text) THEN SyntaxError
    ELSE IF text[i].q THEN Parsed(Str(text[i].s), i + 1)
    ELSE IF text[i] = P("null") THEN Parsed(Null, i + 1)
    ELSE IF text[i] = P("[")
         THEN IF IsTok(text, i + 1, P("]")) THEN Parsed(Arr(<< >>), i + 2)
              ELSE parseItems(text, i + 1, << >>)
    ELSE IF text[i] = P("{")
         THEN IF IsTok(text, i + 1, P("}")) THEN Parsed(Obj(Undefined, Undefined), i + 2)
              ELSE parseProps(text, i + 1, Obj(Undefined, Undefined))
    ELSE SyntaxError

\* JSON.parse: the value, or a SyntaxError when the text is not one whole value.
JSONparse(text) ==
    LET r == parseValue(text, 1)
    IN  IF r.ok /\ r.next = Len(text) + 1 THEN r ELSE SyntaxError

\* ------------------------------------------------------------------
\* Database layer (db.js)
\* ------------------------------------------------------------------

\* No row of the puzzles table for a date.
NoRow == [row_criteria |-> << >>, col_criteria |-> << >>, present |-> FALSE]

Row(row_criteria, col_criteria) ==
    [row_criteria |-> row_criteria, col_criteria |-> col_criteria, present |-> TRUE]

\* What a call returned, or that it threw.
Returned(v) == [threw |-> FALSE, value |-> v]

Threw == [threw |-> TRUE, value |-> Undefined]

\* Mutant of getPuzzle: colCriteria is parsed from row_criteria.
getPuzzleRowsTwice(puzzles, dateStr) ==
    LET row == puzzles[dateStr]
        r == JSONparse(row.row_criteria)
    IN  IF ~row.present THEN Returned(Null)
        ELSE IF ~r.ok THEN Threw
        ELSE Returned([t |-> "object", rowCriteria |-> r.value, colCriteria |-> r.value])

\* getPuzzle(dateStr) on the table `puzzles`: null without a row, else the two
\* columns parsed; a JSON.parse SyntaxError propagates to the caller.
getPuzzle(puzzles, dateStr) ==
    LET row == puzzles[dateStr]
        r == JSONparse(row.row_criteria)
        c == JSONparse(row.col_criteria)
    IN  IF ~row.present THEN Returned(Null)
        ELSE IF ~r.ok \/ ~c.ok THEN Threw
        ELSE Returned([t |-> "object", rowCriteria |-> r.value, colCriteria |-> c.value])

\* Mutant of savePuzzle: the two criteria columns are bound in the wrong order.
savePuzzleSwapped(puzzles, dateStr, rowCriteria, colCriteria) ==
    [puzzles EXCEPT ![dateStr] = Row(JSONstringify(colCriteria), JSONstringify(rowCriteria))]

\* Mutant of savePuzzle: ON CONFLICT(date) DO NOTHING, an existing row is kept.
savePuzzleKeepsExisting(puzzles, dateStr, rowCriteria, colCriteria) ==
    IF puzzles[dateStr].present THEN puzzles
    ELSE [puzzles EXCEPT ![dateStr] =
              Row(JSONstringify(rowCriteria), JSONstringify(colCriteria))]

\* Mutant of savePuzzle: the table is emptied before the row is inserted.
savePuzzleReplacesTable(puzzles, dateStr, rowCriteria, colCriteria) ==
    [d \in DOMAIN puzzles |->
        IF d = dateStr THEN Row(JSONstringify(rowCriteria), JSONstringify(colCriteria))
        ELSE NoRow]

\* savePuzzle(dateStr, rowCriteria, colCriteria): INSERT ... ON CONFLICT(date) DO UPDATE.
savePuzzle(puzzles, dateStr, rowCriteria, colCriteria) ==
    [puzzles EXCEPT ![dateStr] = Row(JSONstringify(rowCriteria), JSONstringify(colCriteria))]

\* ------------------------------------------------------------------
\* Math.random outcomes the model draws from
\* ------------------------------------------------------------------

\* How many rotations of the non-row entries the sampled shuffles take.
MaxRotation == 1

\* Math.random is taken at RandomLevels evenly spaced values k / RandomLevels.
RandomLevels == 2

CatalogSize == Len(allCriteria)

\* The draws under which shuffleArray turns <<1, ..., n>> into `target`, from
\* index i (0-based) down to 1: rnd[i] is the index at which target[i] lies.
RECURSIVE drawsFrom(_, _, _, _)
drawsFrom(cur, target, rnd, i) ==
    IF i > 0
    THEN LET j == (CHOOSE p \in 1..Len(cur) : cur[p] = target[i + 1]) - 1
             swapped == [cur EXCEPT ![i + 1] = cur[j + 1], ![j + 1] = cur[i + 1]]
         IN  drawsFrom(swapped, target, [rnd EXCEPT ![i] = j], i - 1)
    ELSE rnd

DrawsFor(target) ==
    drawsFrom([k \in 1..Len(target) |-> k], target,
              [i \in 1..(Len(target) - 1) |-> 0], Len(target) - 1)

Rotate(seq, k) == [i \in 1..Len(seq) |-> seq[((i - 1 + k) % Len(seq)) + 1]]

Reverse(seq) == [i \in 1..Len(seq) |-> seq[Len(seq) + 1 - i]]

\* The entries of the catalog other than a, b, c, in catalog order.
Others(a, b, c) ==
    SelectSeq([k \in 1..CatalogSize |-> k], LAMBDA x : x \notin {a, b, c})

\* Orders of the catalog: every ordered choice of the three leading entries,
\* followed by the other entries in catalog order or in reverse catalog order,
\* rotated by 0..MaxRotation.
SamplePerms ==
    { <<t[1], t[2], t[3]>> \o
          Rotate(IF t[5] THEN Reverse(Others(t[1], t[2], t[3])) ELSE Others(t[1], t[2], t[3]),
                 t[4]) :
        t \in { u \in (1..CatalogSize) \X (1..CatalogSize) \X (1..CatalogSize)
                        \X (0..MaxRotation) \X BOOLEAN :
                  u[1] # u[2] /\ u[1] # u[3] /\ u[2] # u[3] } }

\* Math.random outcomes of one shuffleArray call that yield the sampled orders.
DrawSeqs == { DrawsFor(p) : p \in SamplePerms }

\* Math.random returning k / RandomLevels throughout one shuffleArray call:
\* j = Math.floor((k / RandomLevels) * (i + 1)).
LevelDraw(k) == [i \in 1..(CatalogSize - 1) |-> (k * (i + 1)) \div RandomLevels]

LevelDraws == { LevelDraw(k) : k \in 0..(RandomLevels - 1) }

\* ------------------------------------------------------------------
\* HTTP routes (server.js)
\* ------------------------------------------------------------------

\* JavaScript truthiness of the values the model holds.
Truthy(v) == v.t \notin {"undefined", "null"} /\ ~(v.t = "string" /\ v.s = "")

\* The callback of isValidBoard's every():
\* c && typeof c.name === 'string' && typeof c.code === 'string'.
hasNameAndCode(c) ==
    Truthy(c) /\ Prop(c, "name").t = "string" /\ Prop(c, "code").t = "string"

\* Mutant of isValidBoard: the arity of the rows is not checked.
isValidBoardAnyRows(board) ==
    /\ Truthy(board)
    /\ Prop(board, "rowCriteria").t = "array"
    /\ Prop(board, "colCriteria").t = "array" /\ Len(board.colCriteria.items) = 3
    /\ \A k \in 1..Len(board.rowCriteria.items) : hasNameAndCode(board.rowCriteria.items[k])
    /\ \A k \in 1..Len(board.colCriteria.items) : hasNameAndCode(board.colCriteria.items[k])

isValidBoard(board) ==
    /\ Truthy(board)
    /\ Prop(board, "rowCriteria").t = "array" /\ Len(board.rowCriteria.items) = 3
    /\ Prop(board, "colCriteria").t = "array" /\ Len(board.colCriteria.items) = 3
    /\ \A k \in 1..Len(board.rowCriteria.items) : hasNameAndCode(board.rowCriteria.items[k])
    /\ \A k \in 1..Len(board.colCriteria.items) : hasNameAndCode(board.colCriteria.items[k])

\* Mutant of handlerRegenerates: the handler generates a board for every request.
handlerRegeneratesAlways(board) == TRUE

\* The handler's test `if (!isValidBoard(board))`.
handlerRegenerates(board) == ~isValidBoard(board)

Digits == {"0", "1", "2", "3", "4", "5", "6", "7", "8", "9"}

\* /^\d{4}-\d{2}-\d{2}$/.test(s)
MatchesDatePattern(s) ==
    LET a == Chars(s)
    IN  /\ Len(a) = 10
        /\ \A k \in {1, 2, 3, 4, 6, 7, 9, 10} : a[k] \in Digits
        /\ a[5] = "-" /\ a[8] = "-"

\* The UTC calendar days the clock passes through, as toISOString().slice(0, 10)
\* prints them.
DayStrings == <<"2026-02-18", "2026-02-19", "2026-02-20", "2026-02-21">>

\* todayUTC() when the clock stands at day `now`.
todayUTC(now) == DayStrings[now]

\* Mutant of dateStrOf: today is the day the process was started on.
dateStrOfStartupDay(query, now) ==
    IF Truthy(query) /\ MatchesDatePattern(query.s) THEN query.s ELSE todayUTC(1)

\* The date of a request: req.query.date when it is given and matches the
\* pattern, else today.
dateStrOf(query, now) ==
    IF Truthy(query) /\ MatchesDatePattern(query.s) THEN query.s ELSE todayUTC(now)

\* ------------------------------------------------------------------
\* Bounds and inputs of the server model
\* ------------------------------------------------------------------

\* Days the clock can reach.
MaxDay == 2

\* Requests that can be in flight at once.
MaxReq == 2

\* Restarts of the server process.
MaxRestarts == 1

Days == 1..MaxDay

DateKeys == { DayStrings[k] : k \in Days }

ReqIds == 1..MaxReq

\* The ?date= values of requests: none, each day, and malformed ones.
Queries == {Undefined, Str("2026-2-18")} \cup { Str(d) : d \in DateKeys }

\* The Math.random outcomes of the generateBoard calls of the server, and the
\* result of generateBoard under each.
ServerStreams == { [first |-> a, rest |-> a] : a \in LevelDraws }

generatedUnder == [rnds \in ServerStreams |-> generateBoard(rnds)]

\* Rows of the puzzles table an existing mtgdoku.db file can hold for a date:
\* none, a saved board, test and legacy data, and text that is not JSON.
SavedRow ==
    LET b == generateBoard([first |-> LevelDraw(0), rest |-> LevelDraw(0)]).board
    IN  Row(JSONstringify(b.rowCriteria), JSONstringify(b.colCriteria))

TwoRowsRow ==
    Row(JSONstringify(Arr(<<allColors[1], allTypes[1]>>)),
        JSONstringify(Arr(<<allCMCs[1], allCMCs[2], allYears[1]>>)))

MissingCodeRow ==
    Row(JSONstringify(Arr(<<allColors[1], Obj(Str("test"), Undefined), allTypes[1]>>)),
        JSONstringify(Arr(<<allCMCs[1], allCMCs[2], allYears[1]>>)))

CorruptRow ==
    Row(<<P("["), P("{"), Q("name")>>,
        JSONstringify(Arr(<<allCMCs[1], allCMCs[2], allYears[1]>>)))

StoredRows == {NoRow, SavedRow, TwoRowsRow, MissingCodeRow, CorruptRow}

\* ------------------------------------------------------------------
\* State
\* ------------------------------------------------------------------

VARIABLES
    puzzles,    \* the puzzles table: the row of each date, or NoRow
    now,        \* the UTC day the clock stands at
    server,     \* "starting", "listening", or "crashed-db" / "crashed-json" (startup threw)
    restarts,   \* restarts of the process so far
    reqs,       \* the GET /api/board requests not yet answered and how far each handler has run
    lastResp,   \* the response sent last, with what its handler found and did
    firstResp,  \* history: the first 200 response for each date, as in lastResp
    call,       \* the last call of a function examined on its own: [fn, arg, ret]
    game,       \* the MTGDokuGame object of the page, undefined while no page is loaded
    page        \* the document of the page: buttons, search modal, calls of winGame/loseGame

serverVars == <<puzzles, now, server, restarts, reqs, lastResp, firstResp>>

browserVars == <<game, page>>

vars == <<puzzles, now, server, restarts, reqs, lastResp, firstResp, call, game, page>>

NoCall == [fn |-> "none"]

\* A request slot that holds no request.
NoReq ==
    [pc |-> "none", query |-> Undefined, dateStr |-> "", found |-> Undefined,
     board |-> Null, generated |-> FALSE]

\* res.json({ rowCriteria, colCriteria, date })
OkResponse(board, dateStr) ==
    [status |-> 200, rowCriteria |-> board.rowCriteria, colCriteria |-> board.colCriteria,
     date |-> dateStr]

\* res.status(500).json({ error: 'Failed to load board' })
ErrorResponse == [status |-> 500, error |-> "Failed to load board"]

\* A response as sent, with the handler's date, what getPuzzle returned to it,
\* whether it called generateBoard, and which call threw ("db": the storage
\* layer, "json": JSON.parse in getPuzzle).
Sent(resp, dateStr, found, gen, error) ==
    [resp |-> resp, dateStr |-> dateStr, found |-> found, generated |-> gen, error |-> error]

NoResp == Sent([status |-> 0], "", Undefined, FALSE, "none")

\* The browser part of the state while no page is loaded.
BrowserOff == game = Undefined /\ page = Undefined

\* The server part of the state when only a function is examined.
ServerOff ==
    /\ puzzles = [d \in DateKeys |-> NoRow]
    /\ now = 1
    /\ server = "off"
    /\ restarts = 0
    /\ reqs = [r \in ReqIds |-> NoReq]
    /\ lastResp = NoResp
    /\ firstResp = [d \in DateKeys |-> NoResp]

\* ------------------------------------------------------------------
\* The server process (server.js)
\* ------------------------------------------------------------------

Init ==
    /\ puzzles \in [DateKeys -> StoredRows]
    /\ now = 1
    /\ server = "starting"
    /\ restarts = 0
    /\ reqs = [r \in ReqIds |-> NoReq]
    /\ lastResp = NoResp
    /\ firstResp = [d \in DateKeys |-> NoResp]
    /\ call = NoCall
    /\ BrowserOff

\* Mutant of Startup: the server listens without looking at today's record.
StartupWithoutSeed ==
    /\ server = "starting"
    /\ server' = "listening"
    /\ UNCHANGED <<puzzles, now, restarts, reqs, lastResp, firstResp, call, game, page>>

\* The module's top level after db.init(): ensure today's puzzle, then listen.
\* getOk and saveOk tell whether the storage layer serves the call or throws;
\* an exception here is uncaught and ends the process.
Startup ==
    /\ server = "starting"
    /\ \E getOk \in BOOLEAN, saveOk \in BOOLEAN, rnds \in ServerStreams :
         LET todayStr == todayUTC(now)
             existing == IF getOk THEN getPuzzle(puzzles, todayStr) ELSE Threw
             board == generatedUnder[rnds].board
         IN  IF existing.threw
             THEN /\ server' = (IF getOk THEN "crashed-json" ELSE "crashed-db")
                  /\ UNCHANGED puzzles
             ELSE IF ~Truthy(existing.value) \/ ~isValidBoard(existing.value)
             THEN IF saveOk
                  THEN /\ puzzles' = savePuzzle(puzzles, todayStr, board.rowCriteria,
                                                board.colCriteria)
                       /\ server' = "listening"
                  ELSE /\ server' = "crashed-db"
                       /\ UNCHANGED puzzles
             ELSE /\ server' = "listening"
                  /\ UNCHANGED puzzles
    /\ UNCHANGED <<now, restarts, reqs, lastResp, firstResp, call, game, page>>

\* A client sends GET /api/board with some ?date=; the request waits for the
\* event loop.  It takes the first free slot (the slots are only names).
Arrive(r) ==
    /\ server = "listening"
    /\ reqs[r].pc = "none"
    /\ \A r2 \in 1..(r - 1) : reqs[r2].pc # "none"
    /\ \E q \in Queries :
         reqs' = [reqs EXCEPT ![r] = [NoReq EXCEPT !.pc = "queued", !.query = q]]
    /\ UNCHANGED <<puzzles, now, server, restarts, lastResp, firstResp, call, game, page>>

\* Mutant of EventLoopIdle: a handler is started while another has not finished.
EventLoopAlwaysIdle == TRUE

\* The handler is synchronous (no await, no callback): the event loop starts a
\* handler only when no other handler is between its start and its response.
EventLoopIdle == \A r \in ReqIds : reqs[r].pc \in {"none", "queued"}

\* The handler up to `if (!isValidBoard(board))`: the date, then getPuzzle.  An
\* exception is caught and answered with 500.
BeginRequest(r) ==
    /\ server = "listening"
    /\ reqs[r].pc = "queued"
    /\ EventLoopIdle
    /\ \E getOk \in BOOLEAN :
         LET dateStr == dateStrOf(reqs[r].query, now)
             found == IF getOk THEN getPuzzle(puzzles, dateStr) ELSE Threw
         IN  IF found.threw
             THEN /\ reqs' = [reqs EXCEPT ![r] = NoReq]
                  /\ lastResp' = Sent(ErrorResponse, dateStr, Undefined, FALSE,
                                      IF getOk THEN "json" ELSE "db")
             ELSE /\ reqs' = [reqs EXCEPT ![r] =
                        [@ EXCEPT !.pc = (IF handlerRegenerates(found.value) THEN "generate"
                                          ELSE "respond"),
                                  !.dateStr = dateStr, !.found = found.value,
                                  !.board = found.value]]
                  /\ UNCHANGED lastResp
    /\ UNCHANGED <<puzzles, now, server, restarts, firstResp, call, game, page>>

\* Mutant of Generate: the response is sent without the board being saved.
GenerateWithoutSave(r) ==
    /\ reqs[r].pc = "generate"
    /\ \E rnds \in ServerStreams :
         reqs' = [reqs EXCEPT ![r] = [@ EXCEPT !.pc = "respond", !.generated = TRUE,
                                                !.board = generatedUnder[rnds].board]]
    /\ UNCHANGED <<puzzles, now, server, restarts, lastResp, firstResp, call, game, page>>

\* board = generateBoard()
Generate(r) ==
    /\ reqs[r].pc = "generate"
    /\ \E rnds \in ServerStreams :
         reqs' = [reqs EXCEPT ![r] = [@ EXCEPT !.pc = "save", !.generated = TRUE,
                                                !.board = generatedUnder[rnds].board]]
    /\ UNCHANGED <<puzzles, now, server, restarts, lastResp, firstResp, call, game, page>>

\* Mutant of Save: an exception of savePuzzle is swallowed and the board is sent.
SaveSwallowsError(r) ==
    /\ reqs[r].pc = "save"
    /\ \E saveOk \in BOOLEAN :
         /\ puzzles' = IF saveOk
                       THEN savePuzzle(puzzles, reqs[r].dateStr, reqs[r].board.rowCriteria,
                                       reqs[r].board.colCriteria)
                       ELSE puzzles
         /\ reqs' = [reqs EXCEPT ![r] = [@ EXCEPT !.pc = "respond"]]
    /\ UNCHANGED <<now, server, restarts, lastResp, firstResp, call, game, page>>

\* db.savePuzzle(dateStr, board.rowCriteria, board.colCriteria); an exception
\* is caught and answered with 500.
Save(r) ==
    /\ reqs[r].pc = "save"
    /\ \E saveOk \in BOOLEAN :
         IF saveOk
         THEN /\ puzzles' = savePuzzle(puzzles, reqs[r].dateStr, reqs[r].board.rowCriteria,
                                       reqs[r].board.colCriteria)
              /\ reqs' = [reqs EXCEPT ![r] = [@ EXCEPT !.pc = "respond"]]
              /\ UNCHANGED lastResp
         ELSE /\ reqs' = [reqs EXCEPT ![r] = NoReq]
              /\ lastResp' = Sent(ErrorResponse, reqs[r].dateStr, reqs[r].found, TRUE, "db")
              /\ UNCHANGED puzzles
    /\ UNCHANGED <<now, server, restarts, firstResp, call, game, page>>

\* res.json({ rowCriteria: board.rowCriteria, colCriteria: board.colCriteria, date: dateStr })
Respond(r) ==
    /\ reqs[r].pc = "respond"
    /\ reqs' = [reqs EXCEPT ![r] = NoReq]
    /\ lastResp' = Sent(OkResponse(reqs[r].board, reqs[r].dateStr), reqs[r].dateStr,
                        reqs[r].found, reqs[r].generated, "none")
    /\ firstResp' = [firstResp EXCEPT ![reqs[r].dateStr] = IF @ = NoResp THEN lastResp' ELSE @]
    /\ UNCHANGED <<puzzles, now, server, restarts, call, game, page>>

\* Midnight UTC passes.
Tick ==
    /\ now < MaxDay
    /\ now' = now + 1
    /\ UNCHANGED <<puzzles, server, restarts, reqs, lastResp, firstResp, call, game, page>>

\* The process ends (crash, kill, deploy) and is started again on the same
\* database file; requests not yet answered are lost.
Restart ==
    /\ server # "starting"
    /\ restarts < MaxRestarts
    /\ restarts' = restarts + 1
    /\ server' = "starting"
    /\ reqs' = [r \in ReqIds |-> NoReq]
    /\ UNCHANGED <<puzzles, now, lastResp, firstResp, call, game, page>>

Next ==
    \/ Startup
    \/ Tick
    \/ Restart
    \/ \E r \in ReqIds : Arrive(r) \/ BeginRequest(r) \/ Generate(r) \/ Save(r) \/ Respond(r)

Spec == Init /\ [][Next]_vars

\* ------------------------------------------------------------------
\* generateBoard on its own
\* ------------------------------------------------------------------

GenInit == ServerOff /\ BrowserOff /\ call = NoCall

\* The outcomes Math.random will have during the call are fixed.
DrawRandoms ==
    /\ call = NoCall
    /\ \E first \in DrawSeqs, rest \in LevelDraws :
         call' = [fn |-> "Math.random", arg |-> [first |-> first, rest |-> rest]]
    /\ UNCHANGED <<serverVars, browserVars>>

CallGenerateBoard ==
    /\ call.fn = "Math.random"
    /\ call' = [fn |-> "generateBoard", arg |-> call.arg, ret |-> generateBoard(call.arg)]
    /\ UNCHANGED <<serverVars, browserVars>>

GenNext == DrawRandoms \/ CallGenerateBoard

SpecGen == GenInit /\ [][GenNext]_vars

\* ------------------------------------------------------------------
\* Properties of the server
\* ------------------------------------------------------------------

\* The stored record of date d loads and is a well-formed board: 3 row and 3
\* column criteria, each an object with a string name and a string code.
WellFormed(board) ==
    /\ board.t = "object"
    /\ \A side \in {"rowCriteria", "colCriteria"} :
         /\ Prop(board, side).t = "array"
         /\ Len(board[side].items) = 3
         /\ \A k \in 1..3 :
              /\ board[side].items[k].t = "object"
              /\ board[side].items[k].name.t = "string"
              /\ board[side].items[k].code.t = "string"

HoldsRecord(d, rowCriteria, colCriteria) ==
    getPuzzle(puzzles, d) =
        Returned([t |-> "object", rowCriteria |-> rowCriteria, colCriteria |-> colCriteria])

ValidRecord(store, d) ==
    LET loaded == getPuzzle(store, d)
    IN  ~loaded.threw /\ WellFormed(loaded.value)

ValidStored(d) == ValidRecord(puzzles, d)

SameBoard(a, b) ==
    a.resp.rowCriteria = b.resp.rowCriteria /\ a.resp.colCriteria = b.resp.colCriteria

\* C1: every 200 response for a date carries the rowCriteria and colCriteria of
\* the first 200 response for that date, whatever was requested in between.
C1_SameDateSameBoard ==
    lastResp.resp.status = 200 => SameBoard(lastResp, firstResp[lastResp.dateStr])

\* C1 witness: a date had no record, its first response was generated, and a
\* later response for it was served from the store.
C1_Witness ==
    /\ lastResp.resp.status = 200
    /\ ~lastResp.generated
    /\ firstResp[lastResp.dateStr].generated
    /\ firstResp[lastResp.dateStr].found = Null

\* C2: a stored record that passes the validity check is never changed or
\* deleted, by a request or by the startup seed; a handler reaches savePuzzle
\* only when getPuzzle returned null or a record that is not valid.
C2_ValidRecordImmutable ==
    /\ [](\A r \in ReqIds :
            reqs[r].pc = "save" => (reqs[r].found = Null \/ ~WellFormed(reqs[r].found)))
    /\ [][\A d \in DateKeys : puzzles'[d] # puzzles[d] => ~ValidStored(d)]_vars

\* C2 witness: a request for a date with a valid record was answered from it,
\* after a restart ran the startup seed again.
C2_Witness ==
    /\ restarts > 0
    /\ server = "listening"
    /\ lastResp.resp.status = 200
    /\ ~lastResp.generated
    /\ ValidStored(lastResp.dateStr)

\* C3: the handlers of concurrent requests do not interleave: at most one is
\* between its getPuzzle and its response; generateBoard is called and
\* savePuzzle is reached for a date only while no valid record of it is stored,
\* so only the first request generates and none overwrites another's record;
\* the responses carry the same board.
C3_PerDateMutualExclusion ==
    /\ Cardinality({ r \in ReqIds : reqs[r].pc \notin {"none", "queued"} }) <= 1
    /\ \A r \in ReqIds :
         reqs[r].pc \in {"generate", "save"} => ~ValidStored(reqs[r].dateStr)
    /\ \A r \in ReqIds :
         (reqs[r].pc = "respond" /\ firstResp[reqs[r].dateStr] # NoResp)
            => /\ ~reqs[r].generated
               /\ reqs[r].board.rowCriteria = firstResp[reqs[r].dateStr].resp.rowCriteria
               /\ reqs[r].board.colCriteria = firstResp[reqs[r].dateStr].resp.colCriteria

\* C3 witness: two requests for the same date without a record: one has
\* generated its board and not yet saved it, the other is waiting.
C3_Witness ==
    \E r1, r2 \in ReqIds :
        /\ r1 # r2
        /\ reqs[r1].pc = "save"
        /\ reqs[r1].found = Null
        /\ reqs[r2].pc = "queued"
        /\ dateStrOf(reqs[r2].query, now) = reqs[r1].dateStr

\* C4: a request that finds a stored record that is not valid (getPuzzle
\* returned it, and it is no well-formed board) answers with a 3 x 3 board and
\* has overwritten the record with it; the store and every later response for
\* the date hold that board.
C4_SelfHealing ==
    /\ (lastResp.resp.status = 200 /\ lastResp.found # Null /\ ~WellFormed(lastResp.found))
          => /\ lastResp.generated
             /\ Len(lastResp.resp.rowCriteria.items) = 3
             /\ Len(lastResp.resp.colCriteria.items) = 3
             /\ HoldsRecord(lastResp.dateStr, lastResp.resp.rowCriteria,
                            lastResp.resp.colCriteria)
    /\ \A d \in DateKeys :
         (firstResp[d] # NoResp /\ firstResp[d].found # Null /\ ~WellFormed(firstResp[d].found))
            => /\ HoldsRecord(d, firstResp[d].resp.rowCriteria, firstResp[d].resp.colCriteria)
               /\ (lastResp.resp.status = 200 /\ lastResp.dateStr = d)
                     => SameBoard(lastResp, firstResp[d])

\* C4 witness: a record with 2 row criteria was replaced, and a later request
\* for the date was answered from the store.
C4_Witness ==
    /\ lastResp.resp.status = 200
    /\ ~lastResp.generated
    /\ firstResp[lastResp.dateStr].found # Null
    /\ firstResp[lastResp.dateStr].found.rowCriteria.t = "array"
    /\ Len(firstResp[lastResp.dateStr].found.rowCriteria.items) = 2

\* C5 (as claimed): a stored record that is not valid, corrupt text included,
\* never surfaces as an error: a 500 response or a failed startup comes only
\* from the storage layer.
C5_InvalidRecordNeverAnError ==
    /\ lastResp.resp.status = 500 => lastResp.error = "db"
    /\ server # "crashed-json"

\* C7: when a response with a generated board is sent, and before it is sent,
\* the store holds exactly that board for the date, and the record is valid,
\* so that the next lookup does not generate.
C7_PersistBeforeReturn ==
    /\ (lastResp.resp.status = 200 /\ lastResp.generated)
          => /\ HoldsRecord(lastResp.dateStr, lastResp.resp.rowCriteria,
                            lastResp.resp.colCriteria)
             /\ isValidBoard(getPuzzle(puzzles, lastResp.dateStr).value)
    /\ \A r \in ReqIds :
         (reqs[r].pc = "respond" /\ reqs[r].generated)
            => HoldsRecord(reqs[r].dateStr, reqs[r].board.rowCriteria,
                           reqs[r].board.colCriteria)

\* C7 witness: a response with a generated board has been sent.
C7_Witness == lastResp.resp.status = 200 /\ lastResp.generated

\* C8: a request in which getPuzzle or savePuzzle threw ends with the 500
\* response, which carries no board; a 200 response with a generated board
\* is sent only when savePuzzle has stored that board.
C8_PersistenceUnavailable ==
    /\ lastResp.error # "none" => lastResp.resp = ErrorResponse
    /\ \A r \in ReqIds :
         reqs[r].pc = "respond"
            => \/ ~reqs[r].generated /\ reqs[r].board = reqs[r].found
               \/ reqs[r].generated /\ ValidStored(reqs[r].dateStr)
    /\ (lastResp.resp.status = 200 /\ lastResp.generated) => ValidStored(lastResp.dateStr)

\* C8 witness: savePuzzle threw after a board was generated, and the request
\* was answered with 500.
C8_Witness ==
    /\ lastResp.error = "db"
    /\ lastResp.generated
    /\ lastResp.resp.status = 500
    /\ ~ValidStored(lastResp.dateStr)

\* ------------------------------------------------------------------
\* isValidBoard on its own
\* ------------------------------------------------------------------

\* The longest list of criteria among the boards examined.
MaxListLen == 4

\* What an item of a stored criteria list can be.
ItemInputs ==
    { allColors[1], Crit("", "c:w"), Crit("White Cards", ""), Obj(Str("test"), Undefined),
      Obj(Undefined, Str("c:w")), Obj(Null, Str("c:w")), Null, Str("test") }

\* What a criteria column can parse to: every list of 3 items, lists of 0 to
\* MaxListLen sound criteria, and values that are no array.
ListInputs ==
    { Arr(l) : l \in [1..3 -> ItemInputs] }
        \cup { Arr([k \in 1..n |-> allColors[1]]) : n \in 0..MaxListLen }
        \cup { Null, Undefined, Str("test") }

OtherSideInputs ==
    { Arr(<<allTypes[1], allCMCs[1], allYears[1]>>), Arr(<<allTypes[1], allCMCs[1]>>),
      Arr(<<allTypes[1], Crit("", ""), allYears[1]>>), Arr(<<allTypes[1], Null, allYears[1]>>),
      Undefined }

BoardInputs ==
    { [t |-> "object", rowCriteria |-> a, colCriteria |-> b] :
        a \in ListInputs, b \in OtherSideInputs }
        \cup { [t |-> "object", rowCriteria |-> b, colCriteria |-> a] :
                 a \in ListInputs, b \in OtherSideInputs }
        \cup { Null, Undefined }

ValidInit == ServerOff /\ BrowserOff /\ call = NoCall

CallIsValidBoard ==
    /\ call = NoCall
    /\ \E board \in BoardInputs :
         call' = [fn |-> "isValidBoard", arg |-> board, ret |-> isValidBoard(board)]
    /\ UNCHANGED <<serverVars, browserVars>>

ValidNext == CallIsValidBoard

SpecValid == ValidInit /\ [][ValidNext]_vars

\* A well-formed board none of whose criteria has an empty name or code.
NonEmptyWellFormed(board) ==
    /\ WellFormed(board)
    /\ \A side \in {"rowCriteria", "colCriteria"} : \A k \in 1..3 :
         board[side].items[k].name.s # "" /\ board[side].items[k].code.s # ""

\* C6 (as claimed): isValidBoard(board) is true iff the board has exactly 3 row
\* and 3 column criteria and each of the 6 has a non-empty name and a non-empty
\* code.
C6_ValidIffNonEmpty ==
    call.fn = "isValidBoard" => (call.ret <=> NonEmptyWellFormed(call.arg))

\* C6 (amended): isValidBoard(board) is true iff the board has exactly 3 row and
\* 3 column criteria and each of the 6 is an object whose name and code are
\* strings; the empty string is accepted.
C6_ValidIffStrings ==
    call.fn = "isValidBoard" => (call.ret <=> WellFormed(call.arg))

\* C6 witness: a 3 x 3 board with a criterion whose name is the empty string
\* was accepted.
C6_Witness ==
    /\ call.fn = "isValidBoard"
    /\ call.ret
    /\ \E k \in 1..3 : call.arg.rowCriteria.items[k].name.s = ""

\* ------------------------------------------------------------------
\* Properties of generateBoard
\* ------------------------------------------------------------------

\* C9: generateBoard returns 3 row and 3 column criteria, and a board returned
\* from the retry loop has all 9 (row, column) pairs compatible.
C9_BoardShapeAndCompatibility ==
    call.fn = "generateBoard" =>
        LET rows == call.ret.board.rowCriteria.items
            cols == call.ret.board.colCriteria.items
        IN  /\ Len(rows) = 3
            /\ Len(cols) = 3
            /\ ~call.ret.fallback =>
                 \A i \in 1..3, j \in 1..3 : areCriteriaCompatible(rows[i], cols[j])

\* C9 witness: a board returned from the retry loop for which the scan passed
\* over an entry (the 4th of the shuffle) because of the second or third row.
C9_Witness ==
    /\ call.fn = "generateBoard"
    /\ ~call.ret.fallback
    /\ LET shuffled == shuffleArray(allCriteria, call.arg.first)
       IN  /\ call.ret.board.colCriteria.items[1] # shuffled[4]
           /\ areCriteriaCompatible(shuffled[4], shuffled[1])

\* C10: generateBoard returns after at most maxAttempts (10) shuffle-and-scan
\* attempts and at most one further shuffle, at most 11 shuffles in all.
C10_BoundedShuffles ==
    call.fn = "generateBoard" =>
        /\ call.ret.attempts <= maxAttempts
        /\ call.ret.shuffles <= maxAttempts + 1
        /\ call.ret.shuffles - (IF call.ret.fallback THEN 1 ELSE 0) <= maxAttempts

\* C10 witness: generateBoard has returned a board from its retry loop.
C10_Witness ==
    /\ call.fn = "generateBoard"
    /\ call.ret.attempts >= 1
    /\ ~call.ret.fallback

\* The entries after the three rows of a shuffle that are compatible with all
\* three rows.
CompatibleRest(shuffled) ==
    { k \in 4..Len(shuffled) :
        \A i \in 1..3 : areCriteriaCompatible(shuffled[k], shuffled[i]) }

\* C11 (as claimed): some order of the catalog leaves fewer than 3 of the 15
\* entries after the rows compatible with all three rows, so that the scan
\* ends without 3 columns.  The number depends on the rows only, and every row
\* triple is tried; the statement is evaluated where generateBoard has run.
C11_SomeShuffleFails ==
    call.fn = "generateBoard" =>
        \E a \in 1..CatalogSize, b \in 1..CatalogSize, c \in 1..CatalogSize :
            /\ a # b /\ a # c /\ b # c
            /\ LET shuffled == [k \in 1..CatalogSize |->
                                   allCriteria[(<<a, b, c>> \o Others(a, b, c))[k]]]
               IN  /\ Cardinality(CompatibleRest(shuffled)) < 3
                   /\ Len(scanColumns(shuffled, Slice(shuffled, 0, 3), << >>, 3)) < 3

\* C11 (amended): for every order of the catalog at least 5 of the 15 entries
\* after the rows are compatible with all three rows, and generateBoard
\* returns from its first attempt.
C11_ScanNeverFails ==
    call.fn = "generateBoard" =>
        /\ Cardinality(CompatibleRest(shuffleArray(allCriteria, call.arg.first))) >= 5
        /\ call.ret.attempts = 1
        /\ ~call.ret.fallback

\* C11 witness: rows that leave the fewest compatible entries (an exclusive
\* type, a cost and a year leave the 5 colors), and the first attempt returned.
C11_Witness ==
    /\ call.fn = "generateBoard"
    /\ call.ret.attempts = 1
    /\ Cardinality(CompatibleRest(shuffleArray(allCriteria, call.arg.first))) = 5

\* ------------------------------------------------------------------
\* areCriteriaCompatible on its own
\* ------------------------------------------------------------------

CompatInit == ServerOff /\ BrowserOff /\ call = NoCall

CallAreCriteriaCompatible ==
    /\ call = NoCall
    /\ \E a \in 1..CatalogSize, b \in 1..CatalogSize :
         call' = [fn |-> "areCriteriaCompatible", arg |-> <<allCriteria[a], allCriteria[b]>>,
                  ret |-> areCriteriaCompatible(allCriteria[a], allCriteria[b])]
    /\ UNCHANGED <<serverVars, browserVars>>

CompatNext == CallAreCriteriaCompatible

SpecCompat == CompatInit /\ [][CompatNext]_vars

\* The entries of a pool, as a set.
PoolSet(pool) == { pool[k] : k \in 1..Len(pool) }

\* The pool a catalog criterion comes from.
PoolOf(c) ==
    IF c \in PoolSet(allColors) THEN "allColors"
    ELSE IF c \in PoolSet(allTypes) THEN "allTypes"
    ELSE IF c \in PoolSet(allCMCs) THEN "allCMCs"
    ELSE "allYears"

\* C14: areCriteriaCompatible(a, b) = areCriteriaCompatible(b, a) for every
\* pair of catalog criteria, a = b included.
C14_Symmetric ==
    call.fn = "areCriteriaCompatible" =>
        call.ret = areCriteriaCompatible(call.arg[2], call.arg[1])

\* C14 witness: a non-exclusive type was tested against an exclusive one, in
\* this order, and found incompatible.
C14_Witness ==
    /\ call.fn = "areCriteriaCompatible"
    /\ call.arg = <<allTypes[1], allTypes[2]>>
    /\ ~call.ret

\* C15: pairs from different pools and pairs of colors are compatible; pairs
\* of costs and pairs of years are not.
C15_CategoryRules ==
    call.fn = "areCriteriaCompatible" =>
        LET poolA == PoolOf(call.arg[1])
            poolB == PoolOf(call.arg[2])
        IN  /\ poolA # poolB => call.ret
            /\ (poolA = "allColors" /\ poolB = "allColors") => call.ret
            /\ (poolA = "allCMCs" /\ poolB = "allCMCs") => ~call.ret
            /\ (poolA = "allYears" /\ poolB = "allYears") => ~call.ret

\* C15 witness: two different costs were found incompatible.
C15_Witness ==
    /\ call.fn = "areCriteriaCompatible"
    /\ call.arg = <<allCMCs[1], allCMCs[4]>>
    /\ ~call.ret

\* C16: a pair of types is incompatible when one of them is type:instant or
\* type:sorcery, and compatible when both are among creature, enchantment and
\* artifact.
C16_TypeRules ==
    (call.fn = "areCriteriaCompatible"
        /\ PoolOf(call.arg[1]) = "allTypes" /\ PoolOf(call.arg[2]) = "allTypes")
      => LET exclusive == { c \in PoolSet(allTypes) :
                               c.code.s \in {"type:instant", "type:sorcery"} }
         IN  call.ret <=> (call.arg[1] \notin exclusive /\ call.arg[2] \notin exclusive)

\* C16 witness: a creature and a sorcery were found incompatible.
C16_Witness ==
    /\ call.fn = "areCriteriaCompatible"
    /\ call.arg = <<allTypes[1], allTypes[3]>>
    /\ ~call.ret

\* ------------------------------------------------------------------
\* Properties of the date handling
\* ------------------------------------------------------------------

\* A ?date= value that is absent or is no date of the form YYYY-MM-DD.
NoUsableDate(q) ==
    q = Undefined \/ q.s \notin { DayStrings[k] : k \in 1..Len(DayStrings) }

HandlerRunning(pc) == pc \in {"generate", "save", "respond"}

\* C17: a handler whose request has no date parameter, or one that does not
\* match the pattern, looks up todayUTC(); the date stays the same through the
\* handler and is the date of its response; a 500 response is sent only when
\* getPuzzle or savePuzzle threw.
C17_InvalidDateMeansToday ==
    /\ [][\A r \in ReqIds :
            (reqs[r].pc = "queued" /\ reqs'[r].pc # "queued" /\ server' = "listening"
                /\ NoUsableDate(reqs[r].query))
              => IF reqs'[r].pc = "none"
                 THEN lastResp'.dateStr = todayUTC(now) /\ lastResp'.error \in {"db", "json"}
                 ELSE reqs'[r].dateStr = todayUTC(now)]_vars
    /\ [][\A r \in ReqIds :
            (HandlerRunning(reqs[r].pc) /\ HandlerRunning(reqs'[r].pc))
              => reqs'[r].dateStr = reqs[r].dateStr]_vars
    /\ [][\A r \in ReqIds :
            (reqs[r].pc = "respond" /\ reqs'[r].pc = "none" /\ server' = "listening")
              => lastResp'.resp.status = 200 /\ lastResp'.resp.date = reqs[r].dateStr]_vars
    /\ [](lastResp.resp.status = 500 => lastResp.error \in {"db", "json"})

\* C17 witness: on the second day a request with the malformed date 2026-2-18
\* has looked up the second day and is about to respond.
C17_Witness ==
    \E r \in ReqIds :
        /\ reqs[r].pc = "respond"
        /\ reqs[r].query = Str("2026-2-18")
        /\ now = 2
        /\ reqs[r].dateStr = DayStrings[2]

\* ------------------------------------------------------------------
\* The frontend: the date MTGDokuGame.init asks the board for
\* ------------------------------------------------------------------

\* The texts a date can be printed as.
DateTexts ==
    { DayStrings[k] : k \in 1..Len(DayStrings) }
        \cup {"2026-2-18", "2026-2-19", "2026-2-20", "2026-2-21"}

\* The string made of the given characters.
StringOf(chars) == CHOOSE s \in DateTexts : Chars(s) = chars

\* String(n) of a natural number, as characters.
RECURSIVE StringOfNat(_)
StringOfNat(n) ==
    LET digit == <<"0", "1", "2", "3", "4", "5", "6", "7", "8", "9">>[(n % 10) + 1]
    IN  IF n < 10 THEN <<digit>> ELSE Append(StringOfNat(n \div 10), digit)

\* Mutant of padStart2: no padding.
padStartNone(chars) == chars

\* chars.padStart(2, '0')
padStart2(chars) == IF Len(chars) < 2 THEN <<"0">> \o chars ELSE chars

\* An instant of the browser's clock, t = new Date(): the UTC day (an index of
\* DayStrings, which are 18 to 21 February 2026), the UTC hour, and the offset
\* of the browser's time zone from UTC in hours.  The local calendar day:
LocalDay(t) == t.day + (IF t.hour + t.offset >= 24 THEN 1
                        ELSE IF t.hour + t.offset < 0 THEN -1 ELSE 0)

getFullYear(t) == 2026

\* getMonth() is 0-based: February.
getMonth(t) == 1

getDate(t) == 17 + LocalDay(t)

\* init's dateParam as passed to fetch: the URL's date when it is given and
\* matches the pattern, else y + '-' + m + '-' + d of the local date.
dateParamOf(urlDate, t) ==
    IF ~Truthy(urlDate) \/ ~MatchesDatePattern(urlDate.s)
    THEN LET y == StringOfNat(getFullYear(t))
             m == padStart2(StringOfNat(getMonth(t) + 1))
             d == padStart2(StringOfNat(getDate(t)))
         IN  Str(StringOf(y \o <<"-">> \o m \o <<"-">> \o d))
    ELSE urlDate

\* Time zones of browsers: UTC-8, UTC and UTC+9.
TimezoneOffsets == {-8, 0, 9}

\* Instants on the second and third day, in each time zone.
Instants == [day : {2, 3}, hour : 0..23, offset : TimezoneOffsets]

\* params.get('date'): null without the parameter, else its text.
UrlDates == {Null, Str(""), Str("today"), Str("2026-2-18"), Str("2026-02-18"), Str("2026-02-21")}

FrontInit == ServerOff /\ BrowserOff /\ call = NoCall

CallInit ==
    /\ call = NoCall
    /\ \E urlDate \in UrlDates, t \in Instants :
         call' = [fn |-> "init", arg |-> [urlDate |-> urlDate, t |-> t],
                  ret |-> dateParamOf(urlDate, t)]
    /\ UNCHANGED <<serverVars, browserVars>>

FrontNext == CallInit

SpecFront == FrontInit /\ [][FrontNext]_vars

\* C18 (as claimed): without a date in the URL that matches the pattern, the
\* date sent to /api/board is the current UTC date, whatever the local date.
C18_SendsUtcToday ==
    (call.fn = "init" /\ NoUsableDate(call.arg.urlDate))
        => call.ret = Str(todayUTC(call.arg.t.day))

\* C18 (amended): without a date in the URL that matches the pattern, the date
\* sent to /api/board is the browser's local calendar date as YYYY-MM-DD; it is
\* the UTC date when the two calendar dates are the same.
C18_SendsLocalToday ==
    (call.fn = "init" /\ NoUsableDate(call.arg.urlDate))
        => /\ call.ret = Str(DayStrings[LocalDay(call.arg.t)])
           /\ LocalDay(call.arg.t) = call.arg.t.day
                 => call.ret = Str(todayUTC(call.arg.t.day))

\* C18 witness: in a browser at UTC-8, at 03:00 UTC, without a date in the URL,
\* the date sent is the day before the UTC date.
C18_Witness ==
    /\ call.fn = "init"
    /\ call.arg.urlDate = Null
    /\ call.arg.t = [day |-> 2, hour |-> 3, offset |-> -8]
    /\ call.ret = Str(DayStrings[1])

\* ------------------------------------------------------------------
\* Properties of the startup
\* ------------------------------------------------------------------

\* C19: the step in which the server starts to listen leaves a valid record
\* for today's UTC date in the store; when the record was absent or not valid
\* before the step, the step has written it.
C19_StartupContract ==
    [][(server = "starting" /\ server' = "listening")
          => /\ ValidRecord(puzzles', todayUTC(now))
             /\ ~ValidStored(todayUTC(now))
                   => puzzles'[todayUTC(now)] # puzzles[todayUTC(now)]]_vars

\* C19 witness: the server listens on its first start, no request has been
\* answered or begun, and today's record is a board that was not in the
\* database file before: the startup seed wrote it.
C19_Witness ==
    /\ server = "listening"
    /\ restarts = 0
    /\ now = 1
    /\ lastResp = NoResp
    /\ \A r \in ReqIds : reqs[r].pc \in {"none", "queued"}
    /\ ValidStored(todayUTC(now))
    /\ puzzles[todayUTC(now)] # SavedRow

\* ------------------------------------------------------------------
\* The store on its own (db.js)
\* ------------------------------------------------------------------

\* Consecutive getPuzzle calls examined after a savePuzzle.
MaxGets == 3

\* Boards the server passes to savePuzzle: those generateBoard returns when
\* the shuffles leave the catalog in order, reverse it, or take Math.random at
\* one of the levels.
DbBoards ==
    { generateBoard([first |-> d, rest |-> d]).board :
        d \in LevelDraws \cup { DrawsFor([k \in 1..CatalogSize |-> k]),
                                DrawsFor(Reverse([k \in 1..CatalogSize |-> k])) } }

\* call.saved is the board of the last savePuzzle of each date (null before
\* the first), call.gets the getPuzzle calls since the last savePuzzle.
DbInit ==
    /\ puzzles \in [DateKeys -> StoredRows]
    /\ now = 1
    /\ server = "off"
    /\ restarts = 0
    /\ reqs = [r \in ReqIds |-> NoReq]
    /\ lastResp = NoResp
    /\ firstResp = [d \in DateKeys |-> NoResp]
    /\ call = [fn |-> "none", saved |-> [d \in DateKeys |-> Null], gets |-> 0]
    /\ BrowserOff

CallSavePuzzle ==
    /\ \E d \in DateKeys, board \in DbBoards :
         /\ puzzles' = savePuzzle(puzzles, d, board.rowCriteria, board.colCriteria)
         /\ call' = [fn |-> "savePuzzle", arg |-> d, ret |-> Undefined,
                     saved |-> [call.saved EXCEPT ![d] = board], gets |-> 0]
    /\ UNCHANGED <<now, server, restarts, reqs, lastResp, firstResp, game, page>>

\* getPuzzle only runs a SELECT.
CallGetPuzzle ==
    /\ call.gets < MaxGets
    /\ \E d \in DateKeys :
         call' = [fn |-> "getPuzzle", arg |-> d, ret |-> getPuzzle(puzzles, d),
                  saved |-> call.saved, gets |-> call.gets + 1]
    /\ UNCHANGED <<serverVars, browserVars>>

DbNext == CallSavePuzzle \/ CallGetPuzzle

SpecDb == DbInit /\ [][DbNext]_vars

\* C20: after savePuzzle(D, rows, cols) every getPuzzle(D) returns the board
\* {rows, cols}, however many follow; getPuzzle leaves the table as it is; and
\* savePuzzle(D, rows, cols) of the board saved last for D leaves the table as
\* it is, with the one row of D holding that board.
C20_GetAfterPut ==
    /\ []((call.fn = "getPuzzle" /\ call.saved[call.arg] # Null)
            => call.ret = Returned(call.saved[call.arg]))
    /\ [](\A d \in DateKeys :
            call.saved[d] # Null => getPuzzle(puzzles, d) = Returned(call.saved[d]))
    /\ [][call'.fn = "getPuzzle" => puzzles' = puzzles]_vars
    /\ [][(call'.fn = "savePuzzle" /\ call'.saved[call'.arg] = call.saved[call'.arg])
            => puzzles' = puzzles]_vars

\* C20 witness: the third consecutive getPuzzle after a savePuzzle of the same
\* date, over a row that was something else before, returned the saved board.
C20_Witness ==
    /\ call.fn = "getPuzzle"
    /\ call.gets = 3
    /\ call.saved[call.arg] # Null
    /\ call.ret = Returned(call.saved[call.arg])
    /\ call.saved[call.arg] # generateBoard([first |-> LevelDraw(0), rest |-> LevelDraw(0)]).board

\* ------------------------------------------------------------------
\* The frontend: validating a guess (validateCard, checkSingleCriteria)
\* ------------------------------------------------------------------

\* A JavaScript number.
Num(n) == [t |-> "number", s |-> "", n |-> n]

\* A string held as its characters (a text computed at run time).
Text(chars) == [t |-> "text", s |-> "", chars |-> chars]

LowerLetters ==
    <<"a", "b", "c", "d", "e", "f", "g", "h", "i", "j", "k", "l", "m",
      "n", "o", "p", "q", "r", "s", "t", "u", "v", "w", "x", "y", "z">>

UpperLetters ==
    <<"A", "B", "C", "D", "E", "F", "G", "H", "I", "J", "K", "L", "M",
      "N", "O", "P", "Q", "R", "S", "T", "U", "V", "W", "X", "Y", "Z">>

\* String.prototype.toUpperCase, on the characters of a string
toUpperCase(chars) ==
    [k \in 1..Len(chars) |->
        IF \E i \in 1..26 : LowerLetters[i] = chars[k]
        THEN UpperLetters[CHOOSE i \in 1..26 : LowerLetters[i] = chars[k]]
        ELSE chars[k]]

\* String.prototype.toLowerCase
toLowerCase(chars) ==
    [k \in 1..Len(chars) |->
        IF \E i \in 1..26 : UpperLetters[i] = chars[k]
        THEN LowerLetters[CHOOSE i \in 1..26 : UpperLetters[i] = chars[k]]
        ELSE chars[k]]

\* String.prototype.includes, on characters
includes(a, p) ==
    \E i \in 1..(Len(a) + 1) :
        i + Len(p) - 1 <= Len(a) /\ SubSeq(a, i, i + Len(p) - 1) = p

\* String.prototype.split with a one-character separator
RECURSIVE split(_, _)
split(chars, sep) ==
    IF \E i \in 1..Len(chars) : chars[i] = sep
    THEN LET i == CHOOSE j \in 1..Len(chars) :
                      chars[j] = sep /\ \A k \in 1..(j - 1) : chars[k] # sep
         IN  <<SubSeq(chars, 1, i - 1)>> \o split(SubSeq(chars, i + 1, Len(chars)), sep)
    ELSE <<chars>>

\* The digits at the head of a string.
RECURSIVE leadingDigits(_)
leadingDigits(chars) ==
    IF chars # << >> /\ chars[1] \in Digits
    THEN <<chars[1]>> \o leadingDigits(Tail(chars))
    ELSE << >>

\* s.match(/\d+/)[0]: the first run of digits of a string that has one.
RECURSIVE matchDigits(_)
matchDigits(chars) ==
    IF chars = << >> THEN << >>
    ELSE IF chars[1] \in Digits THEN leadingDigits(chars)
    ELSE matchDigits(Tail(chars))

\* parseInt of a string that starts with a digit.
RECURSIVE parseDigits(_, _)
parseDigits(digits, acc) ==
    IF digits = << >> THEN acc
    ELSE parseDigits(Tail(digits),
                     10 * acc + ((CHOOSE d \in 0..9 : StringOfNat(d) = <<digits[1]>>)))

parseInt(chars) == parseDigits(leadingDigits(chars), 0)

\* The characters of the type lines of the cards examined.
TypeLineChars(s) ==
    CASE s = "Instant" ->
            <<"I", "n", "s", "t", "a", "n", "t">>
      [] s = "Sorcery" ->
            <<"S", "o", "r", "c", "e", "r", "y">>
      [] s = "Enchantment" ->
            <<"E", "n", "c", "h", "a", "n", "t", "m", "e", "n", "t">>
      [] s = "Land" ->
            <<"L", "a", "n", "d">>
      [] s = "Creature - Elf" ->
            <<"C", "r", "e", "a", "t", "u", "r", "e", " ", "-", " ", "E", "l", "f">>
      [] s = "Artifact Creature - Golem" ->
            <<"A", "r", "t", "i", "f", "a", "c", "t", " ", "C", "r", "e", "a", "t", "u", "r", "e", " ", "-", " ", "G", "o", "l", "e", "m">>
      [] s = "Creature - Giant // Instant - Adventure" ->
            <<"C", "r", "e", "a", "t", "u", "r", "e", " ", "-", " ", "G", "i", "a", "n", "t", " ", "/", "/", " ", "I", "n", "s", "t", "a", "n", "t", " ", "-", " ", "A", "d", "v", "e", "n", "t", "u", "r", "e">>

\* A card as selectCard stores it on a cell: colors is card.colors || [], a list
\* of letters; type is the type line; cmc a number or undefined; released_at a
\* date text or undefined.
Card(colors, type, cmc, released_at) ==
    [colors |-> colors, type |-> type, cmc |-> cmc, released_at |-> released_at]

\* Mutant of checkColor: the card's colors are compared as they are.
checkColorCaseSensitive(card, code) ==
    LET color == toUpperCase(split(code, ":")[2])
    IN  \E k \in 1..Len(card.colors) : card.colors[k] = color

\* The color branch of checkSingleCriteria.
checkColor(card, code) ==
    LET color == toUpperCase(split(code, ":")[2])
        cardColors == [k \in 1..Len(card.colors) |-> toUpperCase(card.colors[k])]
    IN  \E k \in 1..Len(cardColors) : cardColors[k] = color

\* The type branch of checkSingleCriteria.
checkType(card, code) ==
    LET type == toLowerCase(split(code, ":")[2])
    IN  includes(toLowerCase(TypeLineChars(card.type.s)), type)

\* Mutant of checkMv: '<=' and '>=' are compared as '<' and '>'.
checkMvStrict(card, code) ==
    LET val == parseInt(matchDigits(code))
        cardMVC == IF card.cmc # Undefined THEN card.cmc.n ELSE 0
    IN  IF includes(code, <<"<">>) THEN cardMVC < val
        ELSE IF includes(code, <<">">>) THEN cardMVC > val
        ELSE cardMVC = val

\* The mana value branch of checkSingleCriteria.
checkMv(card, code) ==
    LET val == parseInt(matchDigits(code))
        cardMVC == IF card.cmc # Undefined THEN card.cmc.n ELSE 0
    IN  IF includes(code, <<"<", "=">>) THEN cardMVC <= val
        ELSE IF includes(code, <<">", "=">>) THEN cardMVC >= val
        ELSE IF includes(code, <<"<">>) THEN cardMVC < val
        ELSE IF includes(code, <<">">>) THEN cardMVC > val
        ELSE cardMVC = val

\* Mutant of checkYearPart: '<' is tested before '<='.
checkYearPartStrictFirst(cardYear, part) ==
    LET val == parseInt(matchDigits(part))
    IN  IF includes(part, <<"<">>) THEN cardYear < val
        ELSE IF includes(part, <<"<", "=">>) THEN cardYear <= val
        ELSE IF includes(part, <<">", "=">>) THEN cardYear >= val
        ELSE IF includes(part, <<">">>) THEN cardYear > val
        ELSE cardYear = val

\* The callback of parts.every() in the year branch.
checkYearPart(cardYear, part) ==
    LET val == parseInt(matchDigits(part))
    IN  IF includes(part, <<"<", "=">>) THEN cardYear <= val
        ELSE IF includes(part, <<">", "=">>) THEN cardYear >= val
        ELSE IF includes(part, <<"<">>) THEN cardYear < val
        ELSE IF includes(part, <<">">>) THEN cardYear > val
        ELSE cardYear = val

\* Mutant of checkYear: parts.some() for parts.every().
checkYearSome(card, code) ==
    LET cardYear == IF card.released_at # Undefined /\ card.released_at.chars # << >>
                    THEN parseInt(split(card.released_at.chars, "-")[1])
                    ELSE 0
        parts == split(code, " ")
    IN  \E k \in 1..Len(parts) : checkYearPart(cardYear, parts[k])

\* Mutant of checkYear: a card without release date counts as released now.
checkYearMissingIsNow(card, code) ==
    LET cardYear == IF card.released_at # Undefined /\ card.released_at.chars # << >>
                    THEN parseInt(split(card.released_at.chars, "-")[1])
                    ELSE 2026
        parts == split(code, " ")
    IN  \A k \in 1..Len(parts) : checkYearPart(cardYear, parts[k])

\* The year branch of checkSingleCriteria.
checkYear(card, code) ==
    LET cardYear == IF card.released_at # Undefined /\ card.released_at.chars # << >>
                    THEN parseInt(split(card.released_at.chars, "-")[1])
                    ELSE 0
        parts == split(code, " ")
    IN  \A k \in 1..Len(parts) : checkYearPart(cardYear, parts[k])

checkSingleCriteria(card, criteria) ==
    IF ~Truthy(criteria) \/ ~Truthy(Prop(criteria, "code")) THEN TRUE
    ELSE LET code == Chars(criteria.code.s)
         IN  IF StartsWith(criteria.code.s, "c:") THEN checkColor(card, code)
             ELSE IF StartsWith(criteria.code.s, "type:") THEN checkType(card, code)
             ELSE IF StartsWith(criteria.code.s, "mv") THEN checkMv(card, code)
             ELSE IF StartsWith(criteria.code.s, "year") THEN checkYear(card, code)
             ELSE TRUE

\* Mutant of validateCard: the column match is computed from the row criterion.
validateCardRowTwice(card, rowCrit, colCrit) ==
    LET rowMatch == checkSingleCriteria(card, rowCrit)
        colMatch == checkSingleCriteria(card, rowCrit)
    IN  [isValid |-> rowMatch /\ colMatch, rowMatch |-> rowMatch, colMatch |-> colMatch]

validateCard(card, rowCrit, colCrit) ==
    LET rowMatch == checkSingleCriteria(card, rowCrit)
        colMatch == checkSingleCriteria(card, colCrit)
    IN  [isValid |-> rowMatch /\ colMatch, rowMatch |-> rowMatch, colMatch |-> colMatch]

\* The largest mana value among the cards examined.
MaxCost == 7

\* The release years of the cards examined (the first cards are of 1993).
CardYears == 1993..2026

\* released_at of a card released in the given year.
ReleasedIn(year) == Text(StringOfNat(year) \o <<"-", "0", "8", "-", "0", "5">>)

CardColorLists ==
    { << >>, << <<"W">> >>, << <<"U">> >>, << <<"u">> >>, << <<"B">> >>, << <<"R">> >>,
      << <<"G">> >>, << <<"U">>, <<"B">> >>, << <<"R">>, <<"G">>, <<"W">> >> }

CardTypeLines ==
    { Str("Instant"), Str("Sorcery"), Str("Enchantment"), Str("Land"), Str("Creature - Elf"),
      Str("Artifact Creature - Golem"), Str("Creature - Giant // Instant - Adventure") }

\* The cards examined: a blue 3-cost creature of 2015, varied in its colors, its
\* type line, its mana value and its release date.
Cards ==
    { Card(c, Str("Creature - Elf"), Num(3), ReleasedIn(2015)) : c \in CardColorLists }
        \cup { Card(<< <<"U">> >>, t, Num(3), ReleasedIn(2015)) : t \in CardTypeLines }
        \cup { Card(<< <<"U">> >>, Str("Creature - Elf"), Num(n), ReleasedIn(2015)) :
                 n \in 0..MaxCost }
        \cup { Card(<< <<"U">> >>, Str("Creature - Elf"), Num(3), ReleasedIn(y)) :
                 y \in CardYears }
        \cup { Card(<< >>, Str("Land"), Undefined, Undefined) }

CheckInit == ServerOff /\ BrowserOff /\ call = NoCall

\* Criteria a stored board can hold besides those of the catalog (isValidBoard
\* accepts any name and code): costs compared with < and >.
OtherCriteria == <<Crit("Mana Value < 3", "mv<3"), Crit("Mana Value > 4", "mv>4")>>

BoardCriteria == PoolSet(allCriteria) \cup PoolSet(OtherCriteria)

CallValidateCard ==
    /\ call = NoCall
    /\ \E card \in Cards, rowCrit \in BoardCriteria, colCrit \in BoardCriteria :
         call' = [fn |-> "validateCard",
                  arg |-> [card |-> card, rowCrit |-> rowCrit, colCrit |-> colCrit],
                  ret |-> validateCard(card, rowCrit, colCrit)]
    /\ UNCHANGED <<serverVars, browserVars>>

CheckNext == CallValidateCard

SpecCheck == CheckInit /\ [][CheckNext]_vars

\* C21: validateCard(card, rowCrit, colCrit).isValid is true iff
\* checkSingleCriteria holds of the card with the row criterion and with the
\* column criterion, and it is the same with the two criteria swapped.
C21_CellValidity ==
    call.fn = "validateCard" =>
        /\ call.ret.isValid <=> (checkSingleCriteria(call.arg.card, call.arg.rowCrit)
                                   /\ checkSingleCriteria(call.arg.card, call.arg.colCrit))
        /\ call.ret.isValid
              = validateCard(call.arg.card, call.arg.colCrit, call.arg.rowCrit).isValid

\* C21 witness: a card matched its row criterion and not its column criterion,
\* and was found invalid.
C21_Witness ==
    /\ call.fn = "validateCard"
    /\ call.ret.rowMatch
    /\ ~call.ret.colMatch
    /\ ~call.ret.isValid

\* The release year a card of the examined set was given, 0 without a date.
YearOf(card) ==
    IF card.released_at = Undefined THEN 0
    ELSE CHOOSE y \in CardYears : ReleasedIn(y) = card.released_at

\* The cost a card was given, 0 without one.
CostOf(card) == IF card.cmc = Undefined THEN 0 ELSE card.cmc.n

\* C22: on a card with a release date, a year criterion holds iff each of its
\* comparisons holds of the release year: before 2000, 2000 to 2009, 2010 to
\* 2019, 2020 and later.
C22_YearCriteria ==
    (call.fn = "validateCard" /\ call.arg.card.released_at # Undefined
        /\ call.arg.rowCrit \in PoolSet(allYears))
      => LET y == YearOf(call.arg.card)
             code == call.arg.rowCrit.code.s
         IN  call.ret.rowMatch
               <=> CASE code = "year<2000" -> y < 2000
                     [] code = "year>=2000 year<=2009" -> y >= 2000 /\ y <= 2009
                     [] code = "year>=2010 year<=2019" -> y >= 2010 /\ y <= 2019
                     [] code = "year>=2020" -> y >= 2020

\* C22 witness: a card of 2019 satisfied 'year>=2010 year<=2019'.
C22_Witness ==
    /\ call.fn = "validateCard"
    /\ call.arg.rowCrit = allYears[3]
    /\ call.arg.card.released_at = ReleasedIn(2019)
    /\ call.ret.rowMatch

\* C23: a cost criterion compares the card's cost, 0 when it has none, with
\* the number of the code by the operator of the code.
C23_CostCriteria ==
    (call.fn = "validateCard"
        /\ call.arg.rowCrit \in PoolSet(allCMCs) \cup PoolSet(OtherCriteria))
      => LET c == CostOf(call.arg.card)
             code == call.arg.rowCrit.code.s
         IN  call.ret.rowMatch
               <=> CASE code = "mv<=2" -> c <= 2
                     [] code = "mv=3" -> c = 3
                     [] code = "mv=4" -> c = 4
                     [] code = "mv>=5" -> c >= 5
                     [] code = "mv<3" -> c < 3
                     [] code = "mv>4" -> c > 4

\* C23 witness: a card without cost satisfied 'mv<=2'.
C23_Witness ==
    /\ call.fn = "validateCard"
    /\ call.arg.rowCrit = allCMCs[1]
    /\ call.arg.card.cmc = Undefined
    /\ call.ret.rowMatch

\* The letter of each color criterion.
ColorLetters ==
    [code \in {"c:w", "c:u", "c:b", "c:r", "c:g"} |->
        CASE code = "c:w" -> {<<"W">>, <<"w">>}
          [] code = "c:u" -> {<<"U">>, <<"u">>}
          [] code = "c:b" -> {<<"B">>, <<"b">>}
          [] code = "c:r" -> {<<"R">>, <<"r">>}
          [] code = "c:g" -> {<<"G">>, <<"g">>}]

\* C24: a color criterion holds iff the card's colors contain its letter, in
\* either case; a card without colors satisfies none.
C24_ColorCriteria ==
    (call.fn = "validateCard" /\ call.arg.rowCrit \in PoolSet(allColors))
      => (call.ret.rowMatch
            <=> \E k \in 1..Len(call.arg.card.colors) :
                    call.arg.card.colors[k] \in ColorLetters[call.arg.rowCrit.code.s])

\* C24 witness: a card whose colors are ['u'] satisfied 'c:u'.
C24_Witness ==
    /\ call.fn = "validateCard"
    /\ call.arg.rowCrit = allColors[2]
    /\ call.arg.card.colors = << <<"u">> >>
    /\ call.ret.rowMatch

\* C25: no card satisfies two distinct cost criteria of the catalog, nor two
\* distinct year criteria.
C25_OneCostOneYear ==
    (call.fn = "validateCard" /\ call.arg.rowCrit # call.arg.colCrit
        /\ \/ {call.arg.rowCrit, call.arg.colCrit} \subseteq PoolSet(allCMCs)
           \/ {call.arg.rowCrit, call.arg.colCrit} \subseteq PoolSet(allYears))
      => ~(call.ret.rowMatch /\ call.ret.colMatch)

\* C25 witness: a card of 2015 was tested against two distinct year criteria
\* and satisfied one of them.
C25_Witness ==
    /\ call.fn = "validateCard"
    /\ call.arg.rowCrit = allYears[3]
    /\ call.arg.colCrit = allYears[2]
    /\ call.arg.card.released_at = ReleasedIn(2015)
    /\ call.ret.rowMatch
    /\ ~call.ret.colMatch

\* C31 (as claimed): when the row and the column criterion are two type
\* criteria that areCriteriaCompatible declares incompatible, no card matches
\* both.
C31_NoCardForExclusiveTypes ==
    (call.fn = "validateCard"
        /\ call.arg.rowCrit \in PoolSet(allTypes)
        /\ call.arg.colCrit \in PoolSet(allTypes)
        /\ call.arg.rowCrit # call.arg.colCrit
        /\ ~areCriteriaCompatible(call.arg.rowCrit, call.arg.colCrit))
      => ~(call.ret.rowMatch /\ call.ret.colMatch)

\* C39: a card without released_at satisfies 'year<2000' and no other year
\* criterion of the catalog, and every card, with or without a release date,
\* satisfies exactly one of the four year criteria.
C39_MissingReleaseDate ==
    (call.fn = "validateCard" /\ call.arg.rowCrit \in PoolSet(allYears))
      => /\ call.arg.card.released_at = Undefined
              => (call.ret.rowMatch <=> call.arg.rowCrit = allYears[1])
         /\ Cardinality({ k \in 1..Len(allYears) :
                            checkSingleCriteria(call.arg.card, allYears[k]) }) = 1

\* C39 witness: a card without released_at was tested against 'year>=2020' in
\* the row and 'year<2000' in the column and satisfied only the latter.
C39_Witness ==
    /\ call.fn = "validateCard"
    /\ call.arg.card.released_at = Undefined
    /\ call.arg.rowCrit = allYears[4]
    /\ call.arg.colCrit = allYears[1]
    /\ ~call.ret.rowMatch
    /\ call.ret.colMatch

\* ------------------------------------------------------------------
\* Reachability of the fallback and order of the scan (generateBoard)
\* ------------------------------------------------------------------

\* Whatever three entries of the catalog are the rows, at least 3 of the other
\* 15 are compatible with all three (the number does not depend on the order).
EveryRowsLeaveThree ==
    \A a \in 1..CatalogSize, b \in 1..CatalogSize, c \in 1..CatalogSize :
        (a < b /\ b < c)
          => Cardinality({ k \in (1..CatalogSize) \ {a, b, c} :
                             \A r \in {a, b, c} :
                                 areCriteriaCompatible(allCriteria[k], allCriteria[r]) }) >= 3

\* C29: every three rows leave at least 3 compatible entries, so generateBoard
\* returns from its first attempt, after one shuffle, not through the fallback,
\* and each of the 9 pairs of a row and a column of its board is compatible.
C29_FallbackUnreachable ==
    call.fn = "generateBoard" =>
        /\ EveryRowsLeaveThree
        /\ call.ret.attempts = 1
        /\ call.ret.shuffles = 1
        /\ ~call.ret.fallback
        /\ \A i \in 1..3, j \in 1..3 :
               areCriteriaCompatible(call.ret.board.rowCriteria.items[i],
                                     call.ret.board.colCriteria.items[j])

\* C29 witness: the rows are an exclusive type, a cost and a year, which leave
\* only colors for the columns, and the first attempt returned the board.
C29_Witness ==
    /\ call.fn = "generateBoard"
    /\ call.ret.attempts = 1
    /\ \E i \in 1..3 : isExclusive(call.ret.board.rowCriteria.items[i].code.s)
    /\ \A i \in 1..3 : getCat(call.ret.board.rowCriteria.items[i]) # "color"
    /\ \A j \in 1..3 : getCat(call.ret.board.colCriteria.items[j]) = "color"

\* The first three entries after the rows of a shuffle, in shuffled order, that
\* are compatible with all three rows.
FirstThreeCompatible(shuffled) ==
    LET CompatibleWithRows(e) == \A i \in 1..3 : areCriteriaCompatible(e, shuffled[i])
        accepted == SelectSeq(SubSeq(shuffled, 4, Len(shuffled)), CompatibleWithRows)
    IN  SubSeq(accepted, 1, 3)

\* C30: a board returned from the retry loop has entries 0..2 of the shuffle of
\* that attempt as rows and, as columns, the first three later entries that
\* are compatible with all three rows, in shuffled order.
C30_GreedyScanOrder ==
    (call.fn = "generateBoard" /\ ~call.ret.fallback) =>
        LET shuffled == shuffleArray(allCriteria, DrawOf(call.arg, call.ret.shuffles))
        IN  /\ call.ret.board.rowCriteria.items = SubSeq(shuffled, 1, 3)
            /\ call.ret.board.colCriteria.items = FirstThreeCompatible(shuffled)

\* C30 witness: the scan accepted entry 3 of the shuffle, passed over a later
\* entry and accepted one after it.
C30_Witness ==
    /\ call.fn = "generateBoard"
    /\ ~call.ret.fallback
    /\ LET shuffled == shuffleArray(allCriteria, call.arg.first)
       IN  /\ call.ret.board.colCriteria.items[1] = shuffled[4]
           /\ call.ret.board.colCriteria.items # SubSeq(shuffled, 4, 6)

\* The number of records of the table.
RecordCount(store) == Cardinality({ d \in DOMAIN store : store[d].present })

\* C34: a request resolved to date D is answered from the record of D alone
\* and changes no record but that of D, in its savePuzzle step; no step of the
\* server lowers the number of records, and a step of a request raises it by
\* at most one, which happens in the one savePuzzle step the request has.
C34_RequestFrame ==
    /\ [][\A r \in ReqIds :
            (reqs[r].pc = "queued" /\ reqs'[r].pc \in {"generate", "respond"})
               => /\ reqs'[r].found = getPuzzle(puzzles, reqs'[r].dateStr).value
                  /\ puzzles' = puzzles]_vars
    /\ [][server = "listening" =>
            \A d \in DateKeys :
               puzzles'[d] # puzzles[d]
                  => \E r \in ReqIds : /\ reqs[r].pc = "save"
                                       /\ reqs[r].dateStr = d
                                       /\ reqs'[r].pc = "respond"]_vars
    /\ [][/\ RecordCount(puzzles') >= RecordCount(puzzles)
          /\ RecordCount(puzzles') <= RecordCount(puzzles) + 1]_vars

\* C34 witness: a request for a date without a record has saved its board
\* while the record of another date is stored.
C34_Witness ==
    \E r \in ReqIds, d \in DateKeys :
        /\ reqs[r].pc = "respond"
        /\ reqs[r].generated
        /\ reqs[r].found = Null
        /\ d # reqs[r].dateStr
        /\ puzzles[d].present
        /\ puzzles[reqs[r].dateStr].present

\* C35: the three rows and the three columns of a board generateBoard returns
\* are six different entries of the catalog.
C35_SixDistinctCriteria ==
    call.fn = "generateBoard" =>
        LET six == call.ret.board.rowCriteria.items \o call.ret.board.colCriteria.items
        IN  /\ Len(six) = 6
            /\ \A i \in 1..6 : six[i] \in PoolSet(allCriteria)
            /\ \A i \in 1..6, j \in 1..6 : i # j => six[i] # six[j]

\* C35 witness: a board was returned in which a row and a column are of the
\* same category and a column is of the same category as another column.
C35_Witness ==
    /\ call.fn = "generateBoard"
    /\ LET rows == call.ret.board.rowCriteria.items
           cols == call.ret.board.colCriteria.items
       IN  /\ \E i \in 1..3, j \in 1..3 : getCat(rows[i]) = getCat(cols[j])
           /\ getCat(cols[1]) = getCat(cols[2])

\* ------------------------------------------------------------------
\* The game in the browser (class MTGDokuGame)
\* ------------------------------------------------------------------

\* this.guessLimit
guessLimit == 6

\* The indices of this.grid and of the .grid-cell buttons.
Cells == 0..8

\* The player guesses wrong on at most this many cells of a game.
MaxWrongCells == 1

\* The player solves the cells in reading order, leaving at most this many
\* cells open (neither solved nor out of guesses) before the cell solved.
MaxSkipped == 1

\* The board init() received: rows White, Creatures, 2020+; columns Green,
\* Artifacts, Mana Value 3.
GameBoard ==
    Board(<<allColors[1], allTypes[1], allYears[4]>>, <<allColors[5], allTypes[5], allCMCs[2]>>)

\* The cards Scryfall returns to a search: one that fits every cell, one that
\* fits only cell 0 (White and Green), one that fits no cell.
FitsAll == Card(<< <<"W">>, <<"G">> >>, Str("Artifact Creature - Golem"), Num(3), ReleasedIn(2021))

FitsCell0 == Card(<< <<"W">>, <<"G">> >>, Str("Enchantment"), Num(5), ReleasedIn(2015))

FitsNone == Card(<< >>, Str("Land"), Undefined, Undefined)

SearchCards == <<FitsAll, FitsCell0, FitsNone>>

\* The object the constructor builds, with the board init() loaded.
NewGame ==
    [grid |-> [c \in Cells |->
                  [targetCard |-> Null, selectedCard |-> Null, guessCount |-> 0, solved |-> FALSE]],
     rowCriteria |-> GameBoard.rowCriteria.items,
     colCriteria |-> GameBoard.colCriteria.items,
     guessLimit |-> guessLimit,
     totalSolved |-> 0,
     gameOver |-> FALSE,
     currentCell |-> Null,
     searchTimeout |-> Null]

\* The delay of the setTimeout of handleSearch, in ms.
debounceMs == 300

\* No timer is pending.
NoTimer == [pending |-> FALSE]

\* The page as loaded: no cell button disabled, the search modal hidden, the
\* search input empty, no search results; winGame and loseGame not called yet;
\* no timer pending, no performSearch called, the last input event long ago.
NewPage ==
    [disabled |-> [c \in Cells |-> FALSE],
     searchModalHidden |-> TRUE,
     searchInput |-> << >>,
     searchResults |-> << >>,
     winGameCalls |-> 0,
     loseGameCalls |-> 0,
     timer |-> NoTimer,
     fetches |-> << >>,
     sinceInput |-> debounceMs]

\* What a handler leaves: the game object and the document.
After(g, p) == [game |-> g, page |-> p]

openSearchModal(g, p, cellIndex) ==
    IF g.grid[cellIndex].solved THEN After(g, p)
    ELSE After([g EXCEPT !.currentCell = Num(cellIndex)],
               [p EXCEPT !.searchModalHidden = FALSE, !.searchInput = << >>,
                         !.searchResults = << >>])

\* winGame and loseGame schedule the game-over modal; the document counts the calls.
winGame(p) == [p EXCEPT !.winGameCalls = @ + 1]

loseGame(p) == [p EXCEPT !.loseGameCalls = @ + 1]

\* Mutant of handleCorrectGuess: winGame is called whenever a guess is correct.
handleCorrectGuessAlwaysWins(g, p, cellIndex) ==
    LET g1 == IF ~g.grid[cellIndex].solved
              THEN [g EXCEPT !.grid[cellIndex].solved = TRUE, !.totalSolved = @ + 1]
              ELSE g
        p1 == [p EXCEPT !.disabled[cellIndex] = TRUE]
    IN  After(g1, winGame(p1))

\* Mutant of handleCorrectGuess: the game is won when every button is disabled.
handleCorrectGuessAllDisabled(g, p, cellIndex) ==
    LET g1 == IF ~g.grid[cellIndex].solved
              THEN [g EXCEPT !.grid[cellIndex].solved = TRUE, !.totalSolved = @ + 1]
              ELSE g
        p1 == [p EXCEPT !.disabled[cellIndex] = TRUE]
    IN  After(g1, IF \A c \in Cells : p1.disabled[c] THEN winGame(p1) ELSE p1)

handleCorrectGuess(g, p, cellIndex) ==
    LET g1 == IF ~g.grid[cellIndex].solved
              THEN [g EXCEPT !.grid[cellIndex].solved = TRUE, !.totalSolved = @ + 1]
              ELSE g
        p1 == [p EXCEPT !.disabled[cellIndex] = TRUE]
    IN  After(g1, IF g1.totalSolved = 9 THEN winGame(p1) ELSE p1)

\* Mutant of handleIncorrectGuess: the button is not disabled at the limit.
handleIncorrectGuessNoDisable(g, p, cellIndex) ==
    IF g.grid[cellIndex].guessCount >= g.guessLimit
    THEN After([g EXCEPT !.gameOver = TRUE], loseGame(p))
    ELSE After(g, p)

\* Mutant of handleIncorrectGuess: the game is over at the first wrong guess.
handleIncorrectGuessAtOnce(g, p, cellIndex) ==
    IF g.grid[cellIndex].guessCount >= 1
    THEN After([g EXCEPT !.gameOver = TRUE], loseGame([p EXCEPT !.disabled[cellIndex] = TRUE]))
    ELSE After(g, p)

\* Mutant of handleIncorrectGuess: loseGame is not called when gameOver is set.
handleIncorrectGuessLosesOnce(g, p, cellIndex) ==
    IF g.grid[cellIndex].guessCount >= g.guessLimit
    THEN IF g.gameOver
         THEN After(g, [p EXCEPT !.disabled[cellIndex] = TRUE])
         ELSE After([g EXCEPT !.gameOver = TRUE],
                    loseGame([p EXCEPT !.disabled[cellIndex] = TRUE]))
    ELSE After(g, p)

\* The error, flash and shake classes of the else branch are removed again by
\* timers and are not part of the state.
handleIncorrectGuess(g, p, cellIndex) ==
    IF g.grid[cellIndex].guessCount >= g.guessLimit
    THEN After([g EXCEPT !.gameOver = TRUE], loseGame([p EXCEPT !.disabled[cellIndex] = TRUE]))
    ELSE After(g, p)

submitGuess(g, p, cellIndex) ==
    LET cell == g.grid[cellIndex]
        rowIndex == cellIndex \div 3
        colIndex == cellIndex % 3
        rowCrit == g.rowCriteria[rowIndex + 1]
        colCrit == g.colCriteria[colIndex + 1]
        validation == validateCard(cell.selectedCard, rowCrit, colCrit)
    IN  IF validation.isValid THEN handleCorrectGuess(g, p, cellIndex)
        ELSE handleIncorrectGuess(g, p, cellIndex)

\* Mutant of selectCard: no check of cell.solved, and the modal stays open.
selectCardStaysOpen(g, p, card) ==
    LET cellIndex == g.currentCell.n
        g1 == [g EXCEPT !.grid[cellIndex].selectedCard = card,
                        !.grid[cellIndex].guessCount = @ + 1]
    IN  submitGuess(g1, p, cellIndex)

selectCard(g, p, card) ==
    LET cellIndex == g.currentCell.n
    IN  IF g.grid[cellIndex].solved THEN After(g, p)
        ELSE LET g1 == [g EXCEPT !.grid[cellIndex].selectedCard = card,
                                 !.grid[cellIndex].guessCount = @ + 1]
                 done == submitGuess(g1, p, cellIndex)
             IN  After(done.game, [done.page EXCEPT !.searchModalHidden = TRUE])

\* The cells with a wrong guess: every guess of an unsolved cell was wrong, and
\* every guess but the last of a solved one.
WrongCells(g) ==
    { c \in Cells : g.grid[c].guessCount > (IF g.grid[c].solved THEN 1 ELSE 0) }

\* The open cells before cellIndex.
Skipped(g, cellIndex) ==
    { c \in 0..(cellIndex - 1) : ~g.grid[c].solved /\ g.grid[c].guessCount < guessLimit }

\* What the player does within the bounds: a guess that leaves g for g1.
WithinPlay(g, g1) ==
    /\ Cardinality(WrongCells(g1)) <= MaxWrongCells
    /\ \A c \in Cells :
         (g1.grid[c].solved /\ ~g.grid[c].solved) => Cardinality(Skipped(g, c)) <= MaxSkipped

GameInit == ServerOff /\ call = NoCall /\ game = NewGame /\ page = NewPage

\* A click on a grid cell; a disabled button receives no click.
ClickCell ==
    /\ \E cellIndex \in Cells :
         /\ ~page.disabled[cellIndex]
         /\ \E done \in {openSearchModal(game, page, cellIndex)} :
              game' = done.game /\ page' = done.page
    /\ UNCHANGED <<serverVars, call>>

\* A click on the close button of the search modal, or outside the modal.
CloseModal ==
    /\ ~page.searchModalHidden
    /\ page' = [page EXCEPT !.searchModalHidden = TRUE]
    /\ UNCHANGED <<serverVars, call, game>>

\* A search typed into the modal completes: displaySearchResults(cards). The
\* response can arrive after the modal was closed or opened for another cell.
DisplaySearchResults ==
    /\ game.currentCell # Null
    /\ page.searchResults # SearchCards
    /\ page' = [page EXCEPT !.searchResults = SearchCards]
    /\ UNCHANGED <<serverVars, call, game>>

\* A click on a search result; the results can be clicked while the modal shows.
ClickResult ==
    /\ ~page.searchModalHidden
    /\ \E k \in 1..Len(page.searchResults) :
         \E done \in {selectCard(game, page, page.searchResults[k])} :
             /\ WithinPlay(game, done.game)
             /\ game' = done.game
             /\ page' = done.page
    /\ UNCHANGED <<serverVars, call>>

\* New Game or Play Again: location.reload() builds the page and the game anew.
Reload ==
    /\ game # NewGame
    /\ game' = NewGame
    /\ page' = NewPage
    /\ UNCHANGED <<serverVars, call>>

GameNext == ClickCell \/ CloseModal \/ DisplaySearchResults \/ ClickResult \/ Reload

SpecGame == GameInit /\ [][GameNext]_vars

\* A cell that ran out of guesses: its guessLimit guesses were all wrong.
OutOfGuesses(g, c) == g.grid[c].guessCount >= guessLimit /\ ~g.grid[c].solved

\* C26: no cell ever has more than guessLimit guesses; a cell whose sixth guess
\* was wrong is disabled, the search modal never shows for it again, and its
\* record never changes again in the game (selectCard would count a guess).
C26_SixGuessesPerCell ==
    /\ [](\A c \in Cells :
            /\ game.grid[c].guessCount <= guessLimit
            /\ OutOfGuesses(game, c) => page.disabled[c]
            /\ (OutOfGuesses(game, c) /\ ~page.searchModalHidden) => game.currentCell # Num(c))
    /\ [][\A c \in Cells :
            OutOfGuesses(game, c) => (game'.grid[c] = game.grid[c] \/ game' = NewGame)]_vars

\* C26 witness: a cell is out of guesses and the search modal shows for
\* another cell.
C26_Witness ==
    /\ \E c \in Cells : OutOfGuesses(game, c) /\ page.disabled[c]
    /\ ~page.searchModalHidden
    /\ page.searchResults # << >>

\* The step is an incorrect guess that brings a cell's guessCount to guessLimit.
IncorrectSixth ==
    \E c \in Cells :
        /\ game.grid[c].guessCount = guessLimit - 1
        /\ game'.grid[c].guessCount = guessLimit
        /\ ~game'.grid[c].solved

\* C27: gameOver is true exactly in the games where some cell is out of
\* guesses; it becomes true, and loseGame is called once, in the step of an
\* incorrect sixth guess, and neither changes in any other step of a game
\* (a correct sixth guess included).
C27_Losing ==
    /\ [](game.gameOver <=> \E c \in Cells : OutOfGuesses(game, c))
    /\ [][IF IncorrectSixth
          THEN game'.gameOver /\ page'.loseGameCalls = page.loseGameCalls + 1
          ELSE \/ game' = NewGame /\ page' = NewPage
               \/ game'.gameOver = game.gameOver /\ page'.loseGameCalls = page.loseGameCalls]_vars

\* C27 witness: a cell is out of guesses, gameOver is true and loseGame was
\* called once, while another cell was solved at its first guess.
C27_Witness ==
    /\ game.gameOver
    /\ page.loseGameCalls = 1
    /\ \E c \in Cells : OutOfGuesses(game, c)
    /\ \E c \in Cells : game.grid[c].solved

\* C28: winGame has been called once in the games where all nine cells are
\* solved and not at all in the others; it is called in the step that brings
\* totalSolved from 8 to 9.
C28_Winning ==
    /\ [](page.winGameCalls = IF \A c \in Cells : game.grid[c].solved THEN 1 ELSE 0)
    /\ [][page'.winGameCalls > page.winGameCalls
            => /\ game.totalSolved = 8
               /\ game'.totalSolved = 9
               /\ page'.winGameCalls = page.winGameCalls + 1]_vars

\* C28 witness: all nine cells are solved, one at its sixth guess, and winGame
\* was called once.
C28_Witness ==
    /\ game.totalSolved = 9
    /\ page.winGameCalls = 1
    /\ \E c \in Cells : game.grid[c].solved /\ game.grid[c].guessCount = guessLimit

\* C36: totalSolved is the number of solved cells and at most 9; the
\* selectedCard, guessCount and solved flag of a solved cell do not change
\* again in the game.
C36_SolvedCellsFrozen ==
    /\ [](/\ game.totalSolved = Cardinality({ c \in Cells : game.grid[c].solved })
          /\ game.totalSolved <= 9)
    /\ [][\A c \in Cells :
            game.grid[c].solved
               => \/ game' = NewGame
                  \/ /\ game'.grid[c].selectedCard = game.grid[c].selectedCard
                     /\ game'.grid[c].guessCount = game.grid[c].guessCount
                     /\ game'.grid[c].solved]_vars

\* C36 witness: a cell was solved at its second guess, the search modal shows
\* results for another cell, and three cells are solved.
C36_Witness ==
    /\ game.totalSolved = 3
    /\ \E c \in Cells : /\ game.grid[c].solved
                        /\ game.grid[c].guessCount = 2
                        /\ page.disabled[c]
                        /\ game.currentCell # Num(c)
    /\ ~page.searchModalHidden
    /\ page.searchResults = SearchCards

\* C37: winGame and loseGame are never both called in one game: after
\* loseGame a cell is out of guesses and unsolved, so totalSolved is below 9
\* and winGame is not called; after winGame no guess changes the grid, so
\* loseGame is not called.
C37_WinLossExclusive ==
    /\ [](~(page.winGameCalls > 0 /\ page.loseGameCalls > 0))
    /\ [](page.loseGameCalls > 0
            => /\ \E c \in Cells : OutOfGuesses(game, c)
               /\ game.totalSolved < 9)
    /\ [][page.winGameCalls > 0 => (game'.grid = game.grid \/ game' = NewGame)]_vars

\* C37 witness: after loseGame the eight other cells were solved, and winGame
\* was not called.
C37_Witness ==
    /\ page.loseGameCalls = 1
    /\ game.totalSolved = 8
    /\ page.winGameCalls = 0
    /\ \A c \in Cells : page.disabled[c]

\* ------------------------------------------------------------------
\* Playing on after the game is over
\* ------------------------------------------------------------------

\* The player guesses in the first PlayedCells cells only, any number of
\* times, right or wrong.
PlayedCells == 3

\* A click on a search result, for one of the cells the player plays.
ClickResultPlayed ==
    /\ ~page.searchModalHidden
    /\ game.currentCell.n < PlayedCells
    /\ \E k \in 1..Len(page.searchResults) :
         \E done \in {selectCard(game, page, page.searchResults[k])} :
             /\ game' = done.game
             /\ page' = done.page
    /\ UNCHANGED <<serverVars, call>>

PlayOnNext == ClickCell \/ CloseModal \/ DisplaySearchResults \/ ClickResultPlayed \/ Reload

SpecPlayOn == GameInit /\ [][PlayOnNext]_vars

\* The criteria of a cell.
RowCritOf(g, c) == g.rowCriteria[(c \div 3) + 1]

ColCritOf(g, c) == g.colCriteria[(c % 3) + 1]

\* C38: gameOver stops nothing.  loseGame has been called once for each cell
\* that is out of guesses; and while the modal shows after gameOver became
\* true, a click on any displayed card counts a guess on the current cell,
\* solves it and raises totalSolved if the card fits, and calls loseGame again
\* if it is the cell's sixth wrong guess.
C38_GameOverStopsNothing ==
    /\ page.loseGameCalls = Cardinality({ c \in Cells : OutOfGuesses(game, c) })
    /\ (game.gameOver /\ ~page.searchModalHidden) =>
          \A k \in 1..Len(page.searchResults) :
             \E done \in {selectCard(game, page, page.searchResults[k])} :
                \E c \in {game.currentCell.n} :
                   \E fits \in {validateCard(page.searchResults[k],
                                             RowCritOf(game, c), ColCritOf(game, c)).isValid} :
                      /\ ~game.grid[c].solved
                      /\ ~page.disabled[c]
                      /\ done.game.grid[c].guessCount = game.grid[c].guessCount + 1
                      /\ done.game.grid[c].solved = fits
                      /\ done.game.totalSolved = game.totalSolved + (IF fits THEN 1 ELSE 0)
                      /\ done.page.loseGameCalls =
                            page.loseGameCalls
                              + (IF ~fits /\ game.grid[c].guessCount = guessLimit - 1
                                 THEN 1 ELSE 0)

\* C38 witness: loseGame was called twice, for two cells, and a third cell
\* has wrong guesses and shows the search results.
C38_Witness ==
    /\ game.gameOver
    /\ page.loseGameCalls = 2
    /\ \E c \in Cells, d \in Cells :
         c # d /\ OutOfGuesses(game, c) /\ OutOfGuesses(game, d)
    /\ ~page.searchModalHidden
    /\ page.searchResults = SearchCards
    /\ game.grid[game.currentCell.n].guessCount > 0

\* ------------------------------------------------------------------
\* The card search of the modal (handleSearch, performSearch)
\* ------------------------------------------------------------------

\* Time passes in steps of this many ms.
TimeStep == 150

\* performSearch is called at most this many times on a page.
MaxSearches == 2

\* The searches are typed for the cells 0..MaxSearchCell.
MaxSearchCell == 1

\* The contents the player gives the search input.
SearchInputs == { << >>, <<" ">>, <<"a">>, <<"b", " ">> }

RECURSIVE trimStart(_)
trimStart(chars) ==
    IF chars # << >> /\ Head(chars) = " " THEN trimStart(Tail(chars)) ELSE chars

RECURSIVE trimEnd(_)
trimEnd(chars) ==
    IF chars # << >> /\ chars[Len(chars)] = " "
    THEN trimEnd(SubSeq(chars, 1, Len(chars) - 1))
    ELSE chars

\* String.prototype.trim
trim(chars) == trimEnd(trimStart(chars))

\* The cards the response to a query yields after scoring, filtering and
\* the cut to ten.
ScoredResults(query) ==
    IF query = <<"a">> THEN <<FitsAll>> ELSE <<FitsCell0, FitsNone>>

\* The id setTimeout returned.  Every setTimeout follows a clearTimeout of the
\* id before, so at most one timer is pending and the id kept is its id.
TimerId == Num(1)

\* clearTimeout(id): without an id nothing is cleared.
clearTimeout(p, id) == IF id = Null THEN p ELSE [p EXCEPT !.timer = NoTimer]

\* setTimeout(() => this.performSearch(query), 300); typedFor records the cell
\* the modal was open for.
setTimeout(p, query, typedFor) ==
    [p EXCEPT !.timer = [pending |-> TRUE, query |-> query, remaining |-> debounceMs,
                         typedFor |-> typedFor]]

\* handleSearch(event), value being event.target.value.
handleSearch(g, p, value) ==
    LET query == trim(value)
    IN  IF Len(query) < 1
        THEN After(g, [p EXCEPT !.searchResults = << >>])
        ELSE After([g EXCEPT !.searchTimeout = TimerId],
                   setTimeout(clearTimeout(p, g.searchTimeout), query, g.currentCell))

\* performSearch(query) up to `await fetch(...)`: the request is in flight
\* (arrival 0).
performSearch(p, query, typedFor) ==
    [p EXCEPT !.fetches = Append(@, [query |-> query, typedFor |-> typedFor,
                                     arrival |-> 0, status |-> 0])]

\* What the results container shows after the response to a fetch: the cards
\* of a 200 response, a message and no card otherwise.
Rendering(fetch) == IF fetch.status = 200 THEN ScoredResults(fetch.query) ELSE << >>

\* The number of responses that arrived.
Arrived(p) == Cardinality({ k \in 1..Len(p.fetches) : p.fetches[k].arrival > 0 })

\* Mutant of performSearchResolve: a response to a query that is no longer in
\* the input is dropped.
performSearchResolveIfCurrent(p, k, status) ==
    LET fetch == [p.fetches[k] EXCEPT !.arrival = Arrived(p) + 1, !.status = status]
    IN  IF fetch.query = trim(p.searchInput)
        THEN [p EXCEPT !.fetches[k] = fetch, !.searchResults = Rendering(fetch)]
        ELSE [p EXCEPT !.fetches[k] = fetch]

\* performSearch after `await fetch(...)`: the response to fetch k arrives
\* with a status and is rendered.
performSearchResolve(p, k, status) ==
    LET fetch == [p.fetches[k] EXCEPT !.arrival = Arrived(p) + 1, !.status = status]
    IN  [p EXCEPT !.fetches[k] = fetch, !.searchResults = Rendering(fetch)]

\* A click on a grid cell the player searches for.
ClickSearchCell ==
    /\ \E cellIndex \in 0..MaxSearchCell :
         /\ ~page.disabled[cellIndex]
         /\ \E done \in {openSearchModal(game, page, cellIndex)} :
              game' = done.game /\ page' = done.page
    /\ UNCHANGED <<serverVars, call>>

\* An input event of the search input: the player changed its content.
Keystroke ==
    /\ ~page.searchModalHidden
    /\ Len(page.fetches) < MaxSearches
    /\ \E value \in SearchInputs \ {page.searchInput} :
         \E done \in {handleSearch(game, [page EXCEPT !.searchInput = value,
                                                      !.sinceInput = 0], value)} :
             game' = done.game /\ page' = done.page
    /\ UNCHANGED <<serverVars, call>>

\* TimeStep ms pass; a timer that is due runs before more time passes.
TimePasses ==
    /\ page.timer.pending => page.timer.remaining > 0
    /\ page.timer.pending \/ page.sinceInput < debounceMs
    /\ page' = [page EXCEPT
                  !.sinceInput = IF @ + TimeStep > debounceMs THEN debounceMs ELSE @ + TimeStep,
                  !.timer = IF @.pending
                            THEN [@ EXCEPT !.remaining = IF @ > TimeStep THEN @ - TimeStep ELSE 0]
                            ELSE @]
    /\ UNCHANGED <<serverVars, call, game>>

\* The timer of handleSearch is due: its callback calls performSearch(query).
TimerFires ==
    /\ page.timer.pending
    /\ page.timer.remaining = 0
    /\ page' = performSearch([page EXCEPT !.timer = NoTimer],
                             page.timer.query, page.timer.typedFor)
    /\ UNCHANGED <<serverVars, call, game>>

\* The response to a fetch in flight arrives; the responses arrive in any order.
ResponseArrives ==
    /\ \E k \in 1..Len(page.fetches), status \in {200, 404} :
         /\ page.fetches[k].arrival = 0
         /\ page' = performSearchResolve(page, k, status)
    /\ UNCHANGED <<serverVars, call, game>>

SearchNext ==
    \/ ClickSearchCell
    \/ CloseModal
    \/ Keystroke
    \/ TimePasses
    \/ TimerFires
    \/ ResponseArrives
    \/ Reload

SpecSearch == GameInit /\ [][SearchNext]_vars

\* C32 (as claimed): performSearch(q) is called only when debounceMs have
\* passed since the last input event, and q is then the trimmed content of the
\* search input; so after an input event that empties the input no search for
\* an earlier query is made.
C32_Debounced ==
    [][Len(page'.fetches) = Len(page.fetches) + 1
         => /\ page.sinceInput >= debounceMs
            /\ page'.fetches[Len(page'.fetches)].query = trim(page.searchInput)]_vars

\* The fetch whose response arrived last.
LastArrived(p) == CHOOSE k \in 1..Len(p.fetches) : p.fetches[k].arrival = Arrived(p)

\* C33: the responses are rendered as they arrive: the step in which the
\* response to a fetch arrives leaves its rendering in the results container,
\* whatever the input holds and whichever fetches are older or in flight; so
\* whenever the container holds cards they are those of the response that
\* arrived last.
C33_LastArrivalShown ==
    /\ [](page.searchResults # << >>
            => /\ Arrived(page) > 0
               /\ page.searchResults = Rendering(page.fetches[LastArrived(page)]))
    /\ [][\A k \in 1..Len(page.fetches) :
            (Len(page'.fetches) = Len(page.fetches)
                /\ page.fetches[k].arrival = 0 /\ page'.fetches[k].arrival > 0)
               => /\ page'.fetches[k].arrival = Arrived(page) + 1
                  /\ page'.searchResults = Rendering(page'.fetches[k])]_vars

\* C33 witness: two searches were in flight; the response to the second came
\* first, the response to the first, typed for cell 0, came last, and its
\* cards show in the modal, open for cell 1, whose input holds the second
\* query.
C33_Witness ==
    /\ Len(page.fetches) = 2
    /\ page.fetches[1].arrival = 2
    /\ page.fetches[2].arrival = 1
    /\ page.fetches[1].status = 200
    /\ page.fetches[1].typedFor = Num(0)
    /\ page.fetches[2].typedFor = Num(1)
    /\ game.currentCell = Num(1)
    /\ ~page.searchModalHidden
    /\ trim(page.searchInput) = page.fetches[2].query
    /\ page.fetches[2].query # page.fetches[1].query
    /\ page.searchResults = ScoredResults(page.fetches[1].query)

=============================================================================
